---- MODULE Spec2Model ----
(***************************************************************************)
(* notex: the bounded-concurrency note pipeline.                           *)
(*                                                                         *)
(*   client.rs     LlmClient::chat        retry loop with backoff          *)
(*   processor.rs  Processor::run         discovery, categorize_all,       *)
(*                                        enhance_all, write, advisory     *)
(*                                        passes                           *)
(*   enhancer.rs   enhance_segment        Segment -> EnhancedSegment       *)
(*   writer.rs     group_by_output_path, write_outputs, build_file_content *)
(*                                                                         *)
(* Two specifications:                                                     *)
(*   SpecChat  one LlmClient::chat call, every attempt and sleep logged    *)
(*   Spec      one Processor::run, from construction to its return value   *)
(***************************************************************************)
EXTENDS Integers, Sequences, FiniteSets, TLC

(***************************************************************************)
(* Bounds of the exploration.                                              *)
(***************************************************************************)
MaxRetries == 4      \* --retries explored by SpecChat: 0..MaxRetries
RunRetries == {0, 1, 2}   \* --retries explored by Spec
MaxParallel == 2     \* --parallel explored by Spec: 1..MaxParallel
MaxNotes == 2        \* notes found by discovery: 0..MaxNotes

VARIABLES
    max_retries,   \* LlmClient.max_retries (config.retries)
    chat,          \* SpecChat: the state of the one chat() call
    endpoint,      \* SpecChat: the replies the endpoint has given, in order
    parallel,      \* config.parallel
    dry_run,       \* config.dry_run
    format,        \* config.format
    reorganize,    \* config.reorganize
    cross_ref,     \* config.cross_ref
    permits,       \* free permits of Processor.semaphore
    pc,            \* position of Processor::run
    notes,         \* the Vec<RawNote> discovery returned
    cat,           \* the stream of categorize_all
    enh,           \* the stream of enhance_all
    adv,           \* the chat_json call of the running advisory pass
    pb,            \* positions of cat_pb and enh_pb
    errors,        \* number of error! lines logged by each phase
    categorized,   \* run()'s local `categorized`
    enhanced,      \* run()'s local `enhanced`
    fs,            \* the file system: [dirs |-> set of paths, files |-> path :> content]
    written,       \* run()'s local `written`
    ioFailed,      \* a filesystem call of this run returned Err
    printed,       \* the totals of the "Total:" line the dry run printed
    file_summaries, \* run_cross_referencing's local `file_summaries`
    ret,           \* what run() returned
    arg,           \* the argument of the function a function specification applies
    val            \* the value of that function, as far as it is computed

cfgvars == <<max_retries, parallel, dry_run, format, reorganize, cross_ref>>
chatvars == <<chat, endpoint>>
runvars == <<permits, pc, notes, cat, enh, adv, pb, errors, categorized,
             enhanced, fs, written, ioFailed, printed, file_summaries, ret>>
fnvars == <<arg, val>>
vars == <<cfgvars, chatvars, runvars, fnvars>>

(***************************************************************************)
(* Option and Result values.                                               *)
(***************************************************************************)
None == [tag |-> "None"]
Some(x) == [tag |-> "Some", val |-> x]
Ok(x) == [tag |-> "Ok", val |-> x]
Err(e) == [tag |-> "Err", err |-> e]

\* Option::unwrap_or
UnwrapOr(opt, default) == IF opt.tag = "Some" THEN opt.val ELSE default

(***************************************************************************)
(* client.rs: ClientError                                                  *)
(***************************************************************************)
OpenAIError == [tag |-> "OpenAI"]
NoContent == [tag |-> "NoContent"]
MaxRetriesError(n) == [tag |-> "MaxRetries", attempts |-> n]

(***************************************************************************)
(* What the endpoint can do with one request: fail in transport, or        *)
(* deliver a completion whose first choice has a content or has none.      *)
(***************************************************************************)
TransportFailure == [tag |-> "Failure"]
Completion(content) == [tag |-> "Completion", content |-> content]

Endpoint(texts) ==
    {TransportFailure, Completion(None)} \cup {Completion(Some(t)) : t \in texts}

\* The replies explored for the calls of a run: the transport failure stands
\* for both retryable failures there.
RunEndpoint(texts) == {TransportFailure} \cup {Completion(Some(t)) : t \in texts}

\* chat_internal: `create(request).await?`, then first choice's content or
\* ClientError::NoContent.
ChatInternal(reply) ==
    IF reply.tag = "Failure" THEN Err(OpenAIError)
    ELSE IF reply.content.tag = "Some" THEN Ok(reply.content.val)
    ELSE Err(NoContent)

(***************************************************************************)
(* LlmClient::chat as a state machine.  A call is                          *)
(*   pc          "request" (chat_internal awaits the endpoint),            *)
(*               "sleep" (the backoff sleep is pending), "returned"        *)
(*   attempt     the loop variable of `for attempt in 1..=max_retries`     *)
(*   last_error  the local of that name                                    *)
(*   ret         the value returned                                        *)
(*   log         the requests sent and the sleeps taken, in order          *)
(***************************************************************************)
Request(attempt) == [ev |-> "request", attempt |-> attempt]
Sleep(attempt, secs) == [ev |-> "sleep", attempt |-> attempt, secs |-> secs]

\* `1..=self.max_retries` contains attempt
InRetryRangeOffByOne(attempt, max) == attempt <= max + 1
InRetryRange(attempt, max) == attempt <= max

\* `Duration::from_secs(1 << (attempt - 1))`
BackoffDelayShifted(attempt) == 2 ^ attempt
BackoffDelay(attempt) == 2 ^ (attempt - 1)

\* `attempt < self.max_retries`: a sleep follows this failed attempt
SleepsAfter(attempt, max) == attempt < max

\* The value after the loop: `Err(last_error.unwrap_or(MaxRetries(max)))`
Exhausted(last_error, max) == Err(UnwrapOr(last_error, MaxRetriesError(max)))

\* The loop head with `attempt` as the next value of the loop variable:
\* either the body starts and sends a request, or the loop is over.
LoopHead(c, attempt, max) ==
    IF InRetryRange(attempt, max)
    THEN [c EXCEPT !.pc = "request", !.attempt = attempt,
                   !.log = Append(@, Request(attempt))]
    ELSE [c EXCEPT !.pc = "returned", !.ret = Exhausted(c.last_error, max)]

\* chat() is called: `let mut last_error = None`, then the loop head.
ChatBeginAtZero(max) ==
    LoopHead([pc |-> "entry", attempt |-> 0, last_error |-> None,
              ret |-> None, log |-> <<>>], 0, max)
ChatBegin(max) ==
    LoopHead([pc |-> "entry", attempt |-> 0, last_error |-> None,
              ret |-> None, log |-> <<>>], 1, max)

\* The endpoint answered the pending request of call c.
ChatOnReply(c, reply, max) ==
    LET r == ChatInternal(reply) IN
    IF r.tag = "Ok"
    THEN [c EXCEPT !.pc = "returned", !.ret = r]
    ELSE LET failed == [c EXCEPT !.last_error = Some(r.err)] IN
         IF SleepsAfter(c.attempt, max)
         THEN [failed EXCEPT !.pc = "sleep",
                             !.log = Append(@, Sleep(c.attempt, BackoffDelay(c.attempt)))]
         ELSE LoopHead(failed, c.attempt + 1, max)

\* The backoff sleep of call c is over: next iteration.
ChatOnWake(c, max) == LoopHead(c, c.attempt + 1, max)

NoCall == [pc |-> "none", attempt |-> 0, last_error |-> None, ret |-> None, log |-> <<>>]


(***************************************************************************)
(* SpecChat: one call of LlmClient::chat against an endpoint that answers  *)
(* each request with any reply.                                            *)
(***************************************************************************)
ChatTexts == {"r1", "r2"}

ChatCall ==
    /\ chat.pc = "none"
    /\ chat' = ChatBegin(max_retries)
    /\ UNCHANGED <<endpoint, cfgvars, runvars, fnvars>>

ChatReply ==
    /\ chat.pc = "request"
    /\ \E reply \in Endpoint(ChatTexts) :
          /\ chat' = ChatOnReply(chat, reply, max_retries)
          /\ endpoint' = Append(endpoint, reply)
    /\ UNCHANGED <<cfgvars, runvars, fnvars>>

ChatWake ==
    /\ chat.pc = "sleep"
    /\ chat' = ChatOnWake(chat, max_retries)
    /\ UNCHANGED <<endpoint, cfgvars, runvars, fnvars>>


(***************************************************************************)
(* Strings.  A text is the sequence of its characters; a path string is    *)
(* the sequence of its '/'-separated components ("math/a.md" is            *)
(* <<"math", "a.md">>), and stands in a text as those components with "/"  *)
(* between them.                                                           *)
(***************************************************************************)
EmptyMap == [x \in {} |-> x]

OutputRoot == <<"out">>          \* config.output
PathA == <<"math", "a.md">>
PathB == <<"b.md">>

\* Path::join: an absolute right-hand side replaces the base
PathJoin(base, p) == IF p # <<>> /\ Head(p) = "/" THEN p ELSE base \o p

\* Path::parent
Parent(p) == SubSeq(p, 1, Len(p) - 1)

(***************************************************************************)
(* types.rs: RawNote, Segment, EnhancedSegment, and what the model (the    *)
(* LLM) may answer.  Note i of the discovery order has path i.  A          *)
(* categorization reply either parses into a list of segments or does      *)
(* not; the k-th segment of note n has a content of its own.  Every note   *)
(* may come back as one segment, the first note also as two.  A task keeps *)
(* in `res` whether its categorize_note / enhance_segment returned Ok or   *)
(* Err.                                                                    *)
(***************************************************************************)
RawNote(i) == [path |-> i]

Seg(n, k) ==
    [content |-> <<"s", ToString(n), ToString(k)>>,
     category |-> IF k = 1 THEN "mathematics" ELSE "ideas",
     subcategory |-> IF k = 1 THEN Some("topology") ELSE None,
     paths |-> IF k = 1 THEN <<PathA>> ELSE <<PathB>>,
     cross_file_to |-> <<PathB>>]

Json(value) == [tag |-> "Json", value |-> value]
Garbage == [tag |-> "Garbage"]

CatTexts(note) ==
    {Garbage, Json(<<Seg(note.path, 1)>>)} \cup
    (IF note.path = 1 THEN {Json(<<Seg(1, 1), Seg(1, 2)>>)} ELSE {})

EnhTexts(item) == {item.segment.content \o <<"!">>}

(***************************************************************************)
(* categorizer.rs: categorize_note, from the value chat_json returned.     *)
(***************************************************************************)
ParseError == [tag |-> "Parse"]
ClientError(e) == [tag |-> "Client", source |-> e]

\* extract_json + serde_json::from_str::<CategorizationResponse>
ParseCategorization(text) ==
    IF text.tag = "Json" THEN Ok(text.value) ELSE Err(ParseError)

CategorizeNoteLenient(r) ==
    IF r.tag = "Err" THEN Err(ClientError(r.err))
    ELSE IF r.val.tag = "Json" THEN Ok(r.val.value) ELSE Ok(<<>>)
CategorizeNote(r) ==
    IF r.tag = "Err" THEN Err(ClientError(r.err))
    ELSE ParseCategorization(r.val)

(***************************************************************************)
(* enhancer.rs: enhance_segment, from the value chat returned.             *)
(***************************************************************************)
EnhanceSegment(r, segment, original_path) ==
    IF r.tag = "Err" THEN Err(ClientError(r.err))
    ELSE Ok([original_path |-> original_path,
             content |-> r.val,
             category |-> segment.category,
             subcategory |-> segment.subcategory,
             output_paths |-> segment.paths \o segment.cross_file_to])

(***************************************************************************)
(* The stream `stream::iter(items).map(..).buffer_unordered(parallel)      *)
(* .collect()` of categorize_all and enhance_all.                          *)
(*   next     the next item stream::iter yields                            *)
(*   tasks    one future per item: "queued" (not yet made), "waiting" (in  *)
(*            the buffer, at semaphore.acquire()), "running" (holds a      *)
(*            permit, inside the gateway call), "finished"                 *)
(*   results  what collect() has gathered, in order of completion; `item`  *)
(*            is the position of the future that produced the value.  The  *)
(*            vector is consumed when the function returns.                *)
(***************************************************************************)
QueuedTask == [st |-> "queued", call |-> NoCall, res |-> "None"]

IdleStream == [state |-> "idle", items |-> <<>>, next |-> 1, tasks |-> <<>>, results |-> <<>>]

NewStream(items) ==
    [state |-> "running", items |-> items, next |-> 1,
     tasks |-> [i \in 1..Len(items) |-> QueuedTask], results |-> <<>>]

InBuffer(s) == {i \in 1..Len(s.tasks) : s.tasks[i].st \in {"waiting", "running"}}
Holders(s) == {i \in 1..Len(s.tasks) : s.tasks[i].st = "running"}

\* config.parallel, as Semaphore::new and buffer_unordered read it
ParallelismDoubled == 2 * parallel
Parallelism == parallel

\* buffer_unordered(n) polls the stream while fewer than n futures are in progress
BufferHasRoom(s) == Cardinality(InBuffer(s)) < Parallelism

\* buffer_unordered ends when the stream is exhausted and no future is in progress
StreamExhausted(s) == s.next > Len(s.items)
StreamDrainedEarly(s) == StreamExhausted(s)
StreamDrained(s) == StreamExhausted(s) /\ InBuffer(s) = {}

\* A future runs to its next await before the executor hands it another
\* wake-up: while a step of the stream itself is possible (a pull, an
\* acquire with a free permit, the return of a finished call), no reply and
\* no timer is delivered.
StreamBusy(s, free) ==
    \/ ~StreamExhausted(s) /\ BufferHasRoom(s)
    \/ \E i \in 1..Len(s.tasks) : s.tasks[i].st = "waiting" /\ free > 0
    \/ \E i \in 1..Len(s.tasks) : s.tasks[i].call.pc = "returned"

StreamPull(s) == [s EXCEPT !.next = @ + 1, !.tasks[s.next].st = "waiting"]

StreamStart(s, i, max) ==
    [s EXCEPT !.tasks[i].st = "running", !.tasks[i].call = ChatBegin(max)]

StreamFinish(s, i, res, result) ==
    [s EXCEPT !.tasks[i] = [st |-> "finished", call |-> NoCall, res |-> res.tag],
              !.results = Append(@, [item |-> i, val |-> result])]

\* `_permit` is dropped when the async block ends, whatever `result` is
PermitsAfterOnSuccess(p, result) == IF result.tag = "Some" THEN p + 1 ELSE p
PermitsAfter(p, result) == p + 1

\* `pb.inc(1)` follows the match, whatever `result` is
ProgressAfterOnSuccess(pos, result) == IF result.tag = "Some" THEN pos + 1 ELSE pos
ProgressAfter(pos, result) == pos + 1

\* `results.into_iter().flatten().collect()`
FlattenAllOrNothing(results) ==
    IF \E i \in 1..Len(results) : results[i].val.tag = "None" THEN <<>>
    ELSE [i \in 1..Len(results) |-> results[i].val.val]
RECURSIVE Flatten(_)
Flatten(results) ==
    IF results = <<>> THEN <<>>
    ELSE IF Head(results).val.tag = "Some"
         THEN <<Head(results).val.val>> \o Flatten(Tail(results))
         ELSE Flatten(Tail(results))

\* enhance_all: `categorized.into_iter().flat_map(..).collect()`
RECURSIVE EnhanceTasks(_)
EnhanceTasks(cs) ==
    IF cs = <<>> THEN <<>>
    ELSE [k \in 1..Len(Head(cs).segments) |->
             [path |-> Head(cs).path, segment |-> Head(cs).segments[k]]]
         \o EnhanceTasks(Tail(cs))


(***************************************************************************)
(* Processor::run, phases 1 to 3.                                          *)
(***************************************************************************)
Formats == {"Markdown", "Plain"}

\* Processor::new, and run() about to start
Init ==
    /\ max_retries \in RunRetries
    /\ parallel \in 1..MaxParallel
    /\ dry_run \in BOOLEAN
    /\ format \in Formats
    /\ reorganize \in BOOLEAN
    /\ cross_ref \in BOOLEAN
    /\ permits = Parallelism
    /\ pc = "discover"
    /\ notes = <<>>
    /\ cat = IdleStream
    /\ enh = IdleStream
    /\ adv = NoCall
    /\ pb = [cat |-> 0, enh |-> 0]
    /\ errors = [cat |-> 0, enh |-> 0]
    /\ categorized = <<>>
    /\ enhanced = <<>>
    /\ fs = [dirs |-> {}, files |-> EmptyMap]
    /\ written = <<>>
    /\ ioFailed = FALSE
    /\ printed = None
    /\ file_summaries = EmptyMap
    /\ ret = None
    /\ chat = NoCall
    /\ endpoint = <<>>
    /\ arg = None
    /\ val = None

\* run(): discover_notes()?; an empty list returns Ok(vec![]), otherwise
\* categorize_all makes its stream.
Discover ==
    /\ pc = "discover"
    /\ \E n \in 0..MaxNotes :
          /\ notes' = [i \in 1..n |-> RawNote(i)]
          /\ IF n = 0
             THEN pc' = "done" /\ ret' = Ok(<<>>) /\ cat' = cat
             ELSE pc' = "categorize" /\ ret' = ret /\ cat' = NewStream(notes')
    /\ UNCHANGED <<cfgvars, chatvars, fnvars, permits, enh, adv, pb, errors, categorized,
                   enhanced, fs, written, ioFailed, printed, file_summaries>>

\* categorize_all: buffer_unordered takes the next note into the buffer
CategorizePull ==
    /\ pc = "categorize"
    /\ ~StreamExhausted(cat)
    /\ BufferHasRoom(cat)
    /\ cat' = StreamPull(cat)
    /\ UNCHANGED <<cfgvars, chatvars, fnvars, permits, pc, notes, enh, adv, pb, errors,
                   categorized, enhanced, fs, written, ioFailed, printed, file_summaries, ret>>

\* `semaphore.acquire().await` succeeds; categorize_note calls chat_json
CategorizeAcquire(i) ==
    /\ pc = "categorize"
    /\ cat.tasks[i].st = "waiting"
    /\ permits > 0
    /\ permits' = permits - 1
    /\ cat' = StreamStart(cat, i, max_retries)
    /\ UNCHANGED <<cfgvars, chatvars, fnvars, pc, notes, enh, adv, pb, errors,
                   categorized, enhanced, fs, written, ioFailed, printed, file_summaries, ret>>

\* the endpoint answers the request of note i
CategorizeReply(i) ==
    /\ pc = "categorize"
    /\ cat.tasks[i].call.pc = "request"
    /\ ~StreamBusy(cat, permits)
    /\ \E reply \in RunEndpoint(CatTexts(cat.items[i])) :
          cat' = [cat EXCEPT !.tasks[i].call = ChatOnReply(@, reply, max_retries)]
    /\ UNCHANGED <<cfgvars, chatvars, fnvars, permits, pc, notes, enh, adv, pb, errors,
                   categorized, enhanced, fs, written, ioFailed, printed, file_summaries, ret>>

\* the backoff sleep of note i is over
CategorizeWake(i) ==
    /\ pc = "categorize"
    /\ cat.tasks[i].call.pc = "sleep"
    /\ ~StreamBusy(cat, permits)
    /\ cat' = [cat EXCEPT !.tasks[i].call = ChatOnWake(@, max_retries)]
    /\ UNCHANGED <<cfgvars, chatvars, fnvars, permits, pc, notes, enh, adv, pb, errors,
                   categorized, enhanced, fs, written, ioFailed, printed, file_summaries, ret>>

\* chat_json returned: the match on categorize_note's value, pb.inc(1), the
\* permit dropped, the value collected
CategorizeFinish(i) ==
    /\ pc = "categorize"
    /\ cat.tasks[i].call.pc = "returned"
    /\ LET res == CategorizeNote(cat.tasks[i].call.ret)
           result == IF res.tag = "Ok"
                     THEN Some([path |-> cat.items[i].path, segments |-> res.val])
                     ELSE None
       IN /\ cat' = StreamFinish(cat, i, res, result)
          /\ errors' = [errors EXCEPT !.cat = IF res.tag = "Err" THEN @ + 1 ELSE @]
          /\ pb' = [pb EXCEPT !.cat = ProgressAfter(@, result)]
          /\ permits' = PermitsAfter(permits, result)
    /\ UNCHANGED <<cfgvars, chatvars, fnvars, pc, notes, enh, adv, categorized,
                   enhanced, fs, written, ioFailed, printed, file_summaries, ret>>

\* `if self.config.dry_run`
DryRunIgnored == FALSE
DryRun == dry_run

\* `categorized.iter().map(|(_, s)| s.len()).sum()`
RECURSIVE TotalSegments(_)
TotalSegments(cs) ==
    IF cs = <<>> THEN 0 ELSE Len(Head(cs).segments) + TotalSegments(Tail(cs))

\* `println!("\nTotal: {} notes -> {} segments", categorized.len(), total_segments)`
TotalLine(cs) == [notes |-> Len(cs), segments |-> TotalSegments(cs)]

\* collect() is complete: categorize_all returns; the dry run prints its
\* plan and returns Ok(vec![]), otherwise enhance_all makes its stream.
CategorizeAllDone ==
    /\ pc = "categorize"
    /\ StreamDrained(cat)
    /\ cat' = [cat EXCEPT !.state = "collected", !.results = <<>>]
    /\ categorized' = Flatten(cat.results)
    /\ IF DryRun
       THEN /\ pc' = "done" /\ ret' = Ok(<<>>) /\ enh' = enh
            /\ printed' = Some(TotalLine(categorized'))
       ELSE /\ pc' = "enhance" /\ ret' = ret /\ enh' = NewStream(EnhanceTasks(categorized'))
            /\ printed' = printed
    /\ UNCHANGED <<cfgvars, chatvars, fnvars, permits, notes, adv, pb, errors,
                   enhanced, fs, written, ioFailed, file_summaries>>

\* enhance_all: buffer_unordered takes the next (path, segment) into the buffer
EnhancePull ==
    /\ pc = "enhance"
    /\ ~StreamExhausted(enh)
    /\ BufferHasRoom(enh)
    /\ enh' = StreamPull(enh)
    /\ UNCHANGED <<cfgvars, chatvars, fnvars, permits, pc, notes, cat, adv, pb, errors,
                   categorized, enhanced, fs, written, ioFailed, printed, file_summaries, ret>>

\* `semaphore.acquire().await` succeeds; enhance_segment calls chat
EnhanceAcquire(i) ==
    /\ pc = "enhance"
    /\ enh.tasks[i].st = "waiting"
    /\ permits > 0
    /\ permits' = permits - 1
    /\ enh' = StreamStart(enh, i, max_retries)
    /\ UNCHANGED <<cfgvars, chatvars, fnvars, pc, notes, cat, adv, pb, errors,
                   categorized, enhanced, fs, written, ioFailed, printed, file_summaries, ret>>

\* the endpoint answers the request of segment i
EnhanceReply(i) ==
    /\ pc = "enhance"
    /\ enh.tasks[i].call.pc = "request"
    /\ ~StreamBusy(enh, permits)
    /\ \E reply \in RunEndpoint(EnhTexts(enh.items[i])) :
          enh' = [enh EXCEPT !.tasks[i].call = ChatOnReply(@, reply, max_retries)]
    /\ UNCHANGED <<cfgvars, chatvars, fnvars, permits, pc, notes, cat, adv, pb, errors,
                   categorized, enhanced, fs, written, ioFailed, printed, file_summaries, ret>>

\* the backoff sleep of segment i is over
EnhanceWake(i) ==
    /\ pc = "enhance"
    /\ enh.tasks[i].call.pc = "sleep"
    /\ ~StreamBusy(enh, permits)
    /\ enh' = [enh EXCEPT !.tasks[i].call = ChatOnWake(@, max_retries)]
    /\ UNCHANGED <<cfgvars, chatvars, fnvars, permits, pc, notes, cat, adv, pb, errors,
                   categorized, enhanced, fs, written, ioFailed, printed, file_summaries, ret>>

\* chat returned: the match on enhance_segment's value, pb.inc(1), the permit
\* dropped, the value collected
EnhanceFinish(i) ==
    /\ pc = "enhance"
    /\ enh.tasks[i].call.pc = "returned"
    /\ LET res == EnhanceSegment(enh.tasks[i].call.ret, enh.items[i].segment,
                                 enh.items[i].path)
           result == IF res.tag = "Ok" THEN Some(res.val) ELSE None
       IN /\ enh' = StreamFinish(enh, i, res, result)
          /\ errors' = [errors EXCEPT !.enh = IF res.tag = "Err" THEN @ + 1 ELSE @]
          /\ pb' = [pb EXCEPT !.enh = ProgressAfter(@, result)]
          /\ permits' = PermitsAfter(permits, result)
    /\ UNCHANGED <<cfgvars, chatvars, fnvars, pc, notes, cat, adv, categorized,
                   enhanced, fs, written, ioFailed, printed, file_summaries, ret>>

\* collect() is complete: enhance_all returns
EnhanceAllDone ==
    /\ pc = "enhance"
    /\ StreamDrained(enh)
    /\ enh' = [enh EXCEPT !.state = "collected", !.results = <<>>]
    /\ enhanced' = Flatten(enh.results)
    /\ pc' = "write"
    /\ UNCHANGED <<cfgvars, chatvars, fnvars, permits, notes, cat, adv, pb, errors,
                   categorized, fs, written, ioFailed, printed, file_summaries, ret>>

(***************************************************************************)
(* writer.rs                                                               *)
(***************************************************************************)
\* `grouped.entry(path.clone()).or_default().push(segment.clone())`
GroupPushOverwrite(grouped, path, segment) ==
    [q \in DOMAIN grouped \cup {path} |->
        IF q = path THEN <<segment>> ELSE grouped[q]]
GroupPush(grouped, path, segment) ==
    [q \in DOMAIN grouped \cup {path} |->
        IF q = path
        THEN (IF path \in DOMAIN grouped THEN Append(grouped[path], segment)
              ELSE <<segment>>)
        ELSE grouped[q]]

\* `for path in &segment.output_paths`
RECURSIVE GroupPaths(_, _, _)
GroupPaths(grouped, segment, paths) ==
    IF paths = <<>> THEN grouped
    ELSE GroupPaths(GroupPush(grouped, Head(paths), segment), segment, Tail(paths))

\* `for segment in segments`
RECURSIVE GroupSegments(_, _)
GroupSegments(grouped, segments) ==
    IF segments = <<>> THEN grouped
    ELSE GroupSegments(GroupPaths(grouped, Head(segments), Head(segments).output_paths),
                       Tail(segments))

GroupByOutputPath(segments) == GroupSegments(EmptyMap, segments)

RECURSIVE Repeat(_, _)
Repeat(c, n) == IF n = 0 THEN <<>> ELSE <<c>> \o Repeat(c, n - 1)

RuleWidth == 80

\* "\n\n---\n\n", and "\n\n" + "=".repeat(80) + "\n\n"
Separator(fmt) ==
    IF fmt = "Markdown" THEN <<"\n", "\n", "-", "-", "-", "\n", "\n">>
    ELSE <<"\n", "\n">> \o Repeat("=", RuleWidth) \o <<"\n", "\n">>

\* the loop of build_file_content over segments[i..]
RECURSIVE PushSegments(_, _, _, _)
PushSegments(content, segments, i, fmt) ==
    IF i > Len(segments) THEN content
    ELSE PushSegments((IF i > 1 THEN content \o Separator(fmt) ELSE content)
                         \o segments[i].content,
                      segments, i + 1, fmt)

EndsWithNewline(content) == content # <<>> /\ content[Len(content)] = "\n"

BuildFileContent(segments, fmt) ==
    LET content == PushSegments(<<>>, segments, 1, fmt)
    IN IF ~EndsWithNewline(content) THEN Append(content, "\n") ELSE content

(***************************************************************************)
(* The file system: the directories and the files that exist, by path.     *)
(*   create_dir_all(p)  makes p and every ancestor of p a directory; fails *)
(*                      when one of them is a file                         *)
(*   write(p, c)        fails when p is a directory or its parent is none  *)
(* Besides, any call may fail for a reason of the environment.             *)
(***************************************************************************)
Prefixes(p) == {SubSeq(p, 1, n) : n \in 1..Len(p)}

IsFile(fsys, p) == p \in DOMAIN fsys.files
IsDir(fsys, p) == p \in fsys.dirs
Exists(fsys, p) == IsFile(fsys, p) \/ IsDir(fsys, p)

CanCreateDirAll(fsys, p) == \A q \in Prefixes(p) : ~IsFile(fsys, q)
CreateDirAll(fsys, p) == [fsys EXCEPT !.dirs = @ \cup Prefixes(p)]

CanWrite(fsys, p) == ~IsDir(fsys, p) /\ (Parent(p) = <<>> \/ IsDir(fsys, Parent(p)))
WriteFile(fsys, p, content) ==
    [fsys EXCEPT !.files = [q \in DOMAIN @ \cup {p} |-> IF q = p THEN content ELSE @[q]]]

\* All orders in which a HashMap may yield the keys of `keys`
Orders(keys) ==
    {o \in [1..Cardinality(keys) -> keys] : \A i, j \in DOMAIN o : i # j => o[i] # o[j]}

(***************************************************************************)
(* write_outputs: the loop over `grouped`, in the order the map yields     *)
(* its entries.  `env` is the iteration at which the environment makes a   *)
(* call fail (0: none) and `op` is that call.  The value is the state      *)
(* when the function returns.                                              *)
(***************************************************************************)
RECURSIVE WriteLoop(_, _, _, _, _, _, _)
WriteLoop(st, grouped, order, i, fmt, env, op) ==
    IF i > Len(order) THEN [st EXCEPT !.ret = Ok(st.written_files)]
    ELSE LET file_path == PathJoin(OutputRoot, order[i])
             parent == Parent(file_path)
             mkdirFails == ~CanCreateDirAll(st.fs, parent) \/ (env = i /\ op = "mkdir")
             made == CreateDirAll(st.fs, parent)
             writeFails == ~CanWrite(made, file_path) \/ (env = i /\ op = "write")
             content == BuildFileContent(grouped[order[i]], fmt)
         IN IF mkdirFails THEN [st EXCEPT !.ret = Err("Io")]
            ELSE IF writeFails THEN [st EXCEPT !.fs = made, !.ret = Err("Io")]
            ELSE WriteLoop([st EXCEPT !.fs = WriteFile(made, file_path, content),
                                      !.written_files = Append(@, file_path)],
                           grouped, order, i + 1, fmt, env, op)

WriteOutputsFn(fsys, grouped, order, fmt, env, op) ==
    WriteLoop([fs |-> fsys, written_files |-> <<>>, ret |-> None],
              grouped, order, 1, fmt, env, op)

FsOps == {"mkdir", "write"}

\* run(): what follows phase 4, 5 or 6 when it ended well
AfterWrite == IF reorganize THEN "reorganize" ELSE IF cross_ref THEN "cross_ref" ELSE "done"
AfterReorganize == IF cross_ref THEN "cross_ref" ELSE "done"

\* run(), phase 4: group_by_output_path, then write_outputs(..)?
WriteOutputs ==
    /\ pc = "write"
    /\ LET grouped == GroupByOutputPath(enhanced) IN
       \E order \in Orders(DOMAIN grouped), env \in 0..Cardinality(DOMAIN grouped), op \in FsOps :
          LET out == WriteOutputsFn(fs, grouped, order, format, env, op) IN
          /\ env = 0 => op = "mkdir"
          /\ fs' = out.fs
          /\ IF out.ret.tag = "Ok"
             THEN /\ written' = out.ret.val
                  /\ ioFailed' = ioFailed
                  /\ pc' = AfterWrite
                  /\ ret' = IF AfterWrite = "done" THEN Ok(written') ELSE ret
             ELSE /\ written' = written
                  /\ ioFailed' = TRUE
                  /\ pc' = "done"
                  /\ ret' = Err("Writer")
    /\ UNCHANGED <<cfgvars, chatvars, fnvars, permits, notes, cat, enh, adv, pb, errors,
                   categorized, enhanced, printed, file_summaries>>


(***************************************************************************)
(* Phase 5, run_reorganization.  The reply is a ReorgResponse or does not  *)
(* parse; only its file_moves change anything.  In the replies explored    *)
(* current_path names a written file or nothing.                           *)
(***************************************************************************)
PathC == <<"stats", "c.md">>
PathMissing == <<"gone.md">>

ReorgSuggestion(current, suggested) ==
    [current_path |-> current, suggested_path |-> suggested]

ReorgTexts ==
    {Garbage,
     Json(<<>>),
     Json(<<ReorgSuggestion(PathA, PathC)>>),
     Json(<<ReorgSuggestion(PathMissing, PathC), ReorgSuggestion(PathB, PathA)>>)}

\* fs::rename of a file: the destination, a file or nothing, is replaced
CanRename(fsys, src, dst) ==
    /\ IsFile(fsys, src)
    /\ ~IsDir(fsys, dst)
    /\ Parent(dst) = <<>> \/ IsDir(fsys, Parent(dst))
Rename(fsys, src, dst) ==
    [fsys EXCEPT !.files = [q \in (DOMAIN @ \ {src}) \cup {dst} |->
                               IF q = dst THEN @[src] ELSE @[q]]]

\* `for mv in &reorg.file_moves`, with the environment failing call `op`
\* of iteration `env`
RECURSIVE MoveLoopNoGuard(_, _, _, _, _)
MoveLoopNoGuard(st, moves, i, env, op) ==
    IF i > Len(moves) THEN [st EXCEPT !.ret = Ok("unit")]
    ELSE LET src == PathJoin(OutputRoot, moves[i].current_path)
             dst == PathJoin(OutputRoot, moves[i].suggested_path)
             mkdirFails == ~CanCreateDirAll(st.fs, Parent(dst)) \/ (env = i /\ op = "mkdir")
             made == CreateDirAll(st.fs, Parent(dst))
             renameFails == ~CanRename(made, src, dst) \/ (env = i /\ op = "rename")
         IN IF mkdirFails THEN [st EXCEPT !.ret = Err("Io")]
            ELSE IF renameFails THEN [st EXCEPT !.fs = made, !.ret = Err("Io")]
            ELSE MoveLoopNoGuard([st EXCEPT !.fs = Rename(made, src, dst)],
                                 moves, i + 1, env, op)
RECURSIVE MoveLoop(_, _, _, _, _)
MoveLoop(st, moves, i, env, op) ==
    IF i > Len(moves) THEN [st EXCEPT !.ret = Ok("unit")]
    ELSE LET src == PathJoin(OutputRoot, moves[i].current_path)
             dst == PathJoin(OutputRoot, moves[i].suggested_path)
             mkdirFails == ~CanCreateDirAll(st.fs, Parent(dst)) \/ (env = i /\ op = "mkdir")
             made == CreateDirAll(st.fs, Parent(dst))
             renameFails == ~CanRename(made, src, dst) \/ (env = i /\ op = "rename")
         IN IF ~Exists(st.fs, src) THEN MoveLoop(st, moves, i + 1, env, op)
            ELSE IF mkdirFails THEN [st EXCEPT !.ret = Err("Io")]
            ELSE IF renameFails THEN [st EXCEPT !.fs = made, !.ret = Err("Io")]
            ELSE MoveLoop([st EXCEPT !.fs = Rename(made, src, dst)],
                          moves, i + 1, env, op)

\* the match on chat_json's value and on the parse of its text
RunReorganizationStrict(fsys, r, env, op) ==
    IF r.tag = "Err" \/ r.val.tag # "Json" THEN [fs |-> fsys, ret |-> Err("Io")]
    ELSE MoveLoop([fs |-> fsys, ret |-> None], r.val.value, 1, env, op)
RunReorganization(fsys, r, env, op) ==
    IF r.tag = "Err" \/ r.val.tag # "Json" THEN [fs |-> fsys, ret |-> Ok("unit")]
    ELSE MoveLoop([fs |-> fsys, ret |-> None], r.val.value, 1, env, op)

ReorgOps == {"mkdir", "rename"}

\* run_reorganization calls chat_json
ReorgCall ==
    /\ pc = "reorganize"
    /\ adv.pc = "none"
    /\ adv' = ChatBegin(max_retries)
    /\ UNCHANGED <<cfgvars, chatvars, fnvars, permits, pc, notes, cat, enh, pb, errors,
                   categorized, enhanced, fs, written, ioFailed, printed, file_summaries, ret>>

ReorgReply ==
    /\ pc = "reorganize"
    /\ adv.pc = "request"
    /\ \E reply \in RunEndpoint(ReorgTexts) : adv' = ChatOnReply(adv, reply, max_retries)
    /\ UNCHANGED <<cfgvars, chatvars, fnvars, permits, pc, notes, cat, enh, pb, errors,
                   categorized, enhanced, fs, written, ioFailed, printed, file_summaries, ret>>

ReorgWake ==
    /\ pc = "reorganize"
    /\ adv.pc = "sleep"
    /\ adv' = ChatOnWake(adv, max_retries)
    /\ UNCHANGED <<cfgvars, chatvars, fnvars, permits, pc, notes, cat, enh, pb, errors,
                   categorized, enhanced, fs, written, ioFailed, printed, file_summaries, ret>>

\* chat_json returned: the moves are applied, then `?` in run()
ReorgApply ==
    /\ pc = "reorganize"
    /\ adv.pc = "returned"
    /\ \E env \in 0..2, op \in ReorgOps :
          LET out == RunReorganization(fs, adv.ret, env, op) IN
          /\ env = 0 => op = "mkdir"
          /\ fs' = out.fs
          /\ IF out.ret.tag = "Ok"
             THEN /\ ioFailed' = ioFailed
                  /\ pc' = AfterReorganize
                  /\ ret' = IF AfterReorganize = "done" THEN Ok(written) ELSE ret
             ELSE /\ ioFailed' = TRUE
                  /\ pc' = "done"
                  /\ ret' = Err("Io")
    /\ adv' = NoCall
    /\ UNCHANGED <<cfgvars, chatvars, fnvars, permits, notes, cat, enh, pb, errors,
                   categorized, enhanced, written, printed, file_summaries>>

(***************************************************************************)
(* Phase 6, run_cross_referencing.                                         *)
(***************************************************************************)
CrossReference(from, to) == [from_file |-> from, to_file |-> to, context |-> "ctx"]

XrefTexts ==
    {Garbage,
     Json(<<>>),
     Json(<<CrossReference(PathA, PathB)>>),
     Json(<<CrossReference(PathMissing, PathA), CrossReference(PathB, PathA)>>)}

\* a path string inside a text
RECURSIVE Slashed(_)
Slashed(p) ==
    IF Len(p) <= 1 THEN p ELSE <<Head(p), "/">> \o Slashed(Tail(p))

\* relative_path: `.zip(..).take_while(|(a, b)| a == b).count()`
RECURSIVE CommonPrefix(_, _)
CommonPrefix(a, b) ==
    IF a # <<>> /\ b # <<>> /\ Head(a) = Head(b)
    THEN 1 + CommonPrefix(Tail(a), Tail(b)) ELSE 0

\* `from_parts.len() - common - 1`, before the subtraction is done in usize
UpCount(from, to) == Len(from) - CommonPrefix(from, to) - 1

\* relative_path, where the subtraction does not underflow
RelativePath(from, to) ==
    LET common == CommonPrefix(from, to)
    IN Repeat("..", UpCount(from, to)) \o SubSeq(to, common + 1, Len(to))

\* the text appended for one reference
RefSection(xref) ==
    <<"\n", "\n", "-", "-", "-", "\n", "\n", "**See also:** ", "[">>
    \o Slashed(xref.to_file) \o <<"]", "(", "./">>
    \o Slashed(RelativePath(xref.from_file, xref.to_file))
    \o <<")", " - ", xref.context, "\n">>

\* `for xref in &refs.references`, with the environment failing call `op`
\* of iteration `env`; an underflow in relative_path ends the process
RECURSIVE XrefLoop(_, _, _, _, _)
XrefLoop(st, refs, i, env, op) ==
    IF i > Len(refs) THEN [st EXCEPT !.ret = Ok("unit")]
    ELSE LET src_path == PathJoin(OutputRoot, refs[i].from_file)
             readFails == ~IsFile(st.fs, src_path) \/ (env = i /\ op = "read")
             writeFails == ~CanWrite(st.fs, src_path) \/ (env = i /\ op = "write")
         IN IF ~Exists(st.fs, src_path) \/ readFails
            THEN XrefLoop(st, refs, i + 1, env, op)
            ELSE IF UpCount(refs[i].from_file, refs[i].to_file) < 0
            THEN [st EXCEPT !.ret = Err("Crash")]
            ELSE IF writeFails THEN [st EXCEPT !.ret = Err("Io")]
            ELSE XrefLoop([st EXCEPT !.fs = WriteFile(@, src_path,
                                         @.files[src_path] \o RefSection(refs[i]))],
                          refs, i + 1, env, op)

RunCrossReferencing(fsys, r, env, op) ==
    IF r.tag = "Err" \/ r.val.tag # "Json" THEN [fs |-> fsys, ret |-> Ok("unit")]
    ELSE XrefLoop([fs |-> fsys, ret |-> None], r.val.value, 1, env, op)

XrefOps == {"read", "write"}

SummaryChars == 500

\* `file.strip_prefix(&self.config.output).unwrap_or(file)`
StripPrefix(file, base) ==
    IF Len(file) >= Len(base) /\ SubSeq(file, 1, Len(base)) = base
    THEN SubSeq(file, Len(base) + 1, Len(file)) ELSE file

\* `content.chars().take(500).collect()`
Summary(content) ==
    SubSeq(content, 1, IF Len(content) < SummaryChars THEN Len(content) ELSE SummaryChars)

\* the loop over `files`: a summary for every file that can be read, under
\* its path relative to the output root
FileSummaries(fsys, files) ==
    LET readable == {i \in 1..Len(files) : IsFile(fsys, files[i])}
        keys == {StripPrefix(files[i], OutputRoot) : i \in readable}
    IN [k \in keys |->
           Summary(fsys.files[files[CHOOSE i \in readable :
                                        StripPrefix(files[i], OutputRoot) = k]])]

\* run_cross_referencing reads the summaries and calls chat_json
XrefCall ==
    /\ pc = "cross_ref"
    /\ adv.pc = "none"
    /\ file_summaries' = FileSummaries(fs, written)
    /\ adv' = ChatBegin(max_retries)
    /\ UNCHANGED <<cfgvars, chatvars, fnvars, permits, pc, notes, cat, enh, pb, errors,
                   categorized, enhanced, fs, written, ioFailed, printed, ret>>

XrefReply ==
    /\ pc = "cross_ref"
    /\ adv.pc = "request"
    /\ \E reply \in RunEndpoint(XrefTexts) : adv' = ChatOnReply(adv, reply, max_retries)
    /\ UNCHANGED <<cfgvars, chatvars, fnvars, permits, pc, notes, cat, enh, pb, errors,
                   categorized, enhanced, fs, written, ioFailed, printed, file_summaries, ret>>

XrefWake ==
    /\ pc = "cross_ref"
    /\ adv.pc = "sleep"
    /\ adv' = ChatOnWake(adv, max_retries)
    /\ UNCHANGED <<cfgvars, chatvars, fnvars, permits, pc, notes, cat, enh, pb, errors,
                   categorized, enhanced, fs, written, ioFailed, printed, file_summaries, ret>>

\* chat_json returned: the references are appended and the summaries dropped,
\* then `?` in run()
XrefApply ==
    /\ pc = "cross_ref"
    /\ adv.pc = "returned"
    /\ \E env \in 0..2, op \in XrefOps :
          LET out == RunCrossReferencing(fs, adv.ret, env, op) IN
          /\ env = 0 => op = "read"
          /\ fs' = out.fs
          /\ IF out.ret.tag = "Ok"
             THEN ioFailed' = ioFailed /\ pc' = "done" /\ ret' = Ok(written)
             ELSE IF out.ret.err = "Crash"
             THEN ioFailed' = ioFailed /\ pc' = "crashed" /\ ret' = ret
             ELSE ioFailed' = TRUE /\ pc' = "done" /\ ret' = Err("Io")
    /\ adv' = NoCall
    /\ file_summaries' = EmptyMap
    /\ UNCHANGED <<cfgvars, chatvars, fnvars, permits, notes, cat, enh, pb, errors,
                   categorized, enhanced, written, printed>>

(***************************************************************************)
(* main.rs: the exit status of the process, from the value run() returned. *)
(* `Err(e) => std::process::exit(1)`; otherwise main returns.              *)
(***************************************************************************)
ExitStatusAlwaysZero(r) == 0
ExitStatus(r) == IF r.tag = "Err" THEN 1 ELSE 0

(***************************************************************************)
(* The specifications.                                                     *)
(***************************************************************************)
Next ==
    \/ Discover
    \/ CategorizePull
    \/ \E i \in 1..Len(cat.tasks) : CategorizeAcquire(i)
    \/ \E i \in 1..Len(cat.tasks) : CategorizeReply(i)
    \/ \E i \in 1..Len(cat.tasks) : CategorizeWake(i)
    \/ \E i \in 1..Len(cat.tasks) : CategorizeFinish(i)
    \/ CategorizeAllDone
    \/ EnhancePull
    \/ \E i \in 1..Len(enh.tasks) : EnhanceAcquire(i)
    \/ \E i \in 1..Len(enh.tasks) : EnhanceReply(i)
    \/ \E i \in 1..Len(enh.tasks) : EnhanceWake(i)
    \/ \E i \in 1..Len(enh.tasks) : EnhanceFinish(i)
    \/ EnhanceAllDone
    \/ WriteOutputs
    \/ ReorgCall
    \/ ReorgReply
    \/ ReorgWake
    \/ ReorgApply
    \/ XrefCall
    \/ XrefReply
    \/ XrefWake
    \/ XrefApply

Spec == Init /\ [][Next]_vars

\* Processor::new with any `parallel` the command line gives: the field is a
\* usize without a range, so 0 is accepted
InitLive ==
    /\ max_retries \in RunRetries
    /\ parallel \in 0..MaxParallel
    /\ dry_run \in BOOLEAN
    /\ format \in Formats
    /\ reorganize \in BOOLEAN
    /\ cross_ref \in BOOLEAN
    /\ permits = Parallelism
    /\ pc = "discover"
    /\ notes = <<>>
    /\ cat = IdleStream
    /\ enh = IdleStream
    /\ adv = NoCall
    /\ pb = [cat |-> 0, enh |-> 0]
    /\ errors = [cat |-> 0, enh |-> 0]
    /\ categorized = <<>>
    /\ enhanced = <<>>
    /\ fs = [dirs |-> {}, files |-> EmptyMap]
    /\ written = <<>>
    /\ ioFailed = FALSE
    /\ printed = None
    /\ file_summaries = EmptyMap
    /\ ret = None
    /\ chat = NoCall
    /\ endpoint = <<>>
    /\ arg = None
    /\ val = None

\* SpecLive: a run in which every step that can be taken is taken in the
\* end: the endpoint answers every request, every sleep ends, and the
\* executor polls every future that is ready.
SpecLive == InitLive /\ [][Next]_vars /\ WF_vars(Next)

\* LlmClient::new, and chat() about to be called
InitChat ==
    /\ max_retries \in 0..MaxRetries
    /\ chat = NoCall
    /\ endpoint = <<>>
    /\ parallel = 1
    /\ dry_run = FALSE
    /\ format = "Markdown"
    /\ reorganize = FALSE
    /\ cross_ref = FALSE
    /\ permits = Parallelism
    /\ pc = "idle"
    /\ notes = <<>>
    /\ cat = IdleStream
    /\ enh = IdleStream
    /\ adv = NoCall
    /\ pb = [cat |-> 0, enh |-> 0]
    /\ errors = [cat |-> 0, enh |-> 0]
    /\ categorized = <<>>
    /\ enhanced = <<>>
    /\ fs = [dirs |-> {}, files |-> EmptyMap]
    /\ written = <<>>
    /\ ioFailed = FALSE
    /\ printed = None
    /\ file_summaries = EmptyMap
    /\ ret = None
    /\ arg = None
    /\ val = None

NextChat == ChatCall \/ ChatReply \/ ChatWake

SpecChat == InitChat /\ [][NextChat]_vars

(***************************************************************************)
(* SpecMoves: the loop `for mv in &reorg.file_moves` of run_reorganization *)
(* on its own, one iteration per step, over every list of at most MaxMoves *)
(* moves between the paths of MovePaths and every tree of files write      *)
(* could have left.  `arg` is the list of moves, `val.i` the iteration.    *)
(***************************************************************************)
MaxMoves == 2

MovePaths == {PathA, PathB, PathC, PathMissing}

MoveLists ==
    UNION {[1..n -> {ReorgSuggestion(c, s) : c \in MovePaths, s \in MovePaths}]
              : n \in 0..MaxMoves}

\* the tree in which the files of `paths` were written under the output root
TreeOf(paths) ==
    [dirs |-> UNION {Prefixes(Parent(PathJoin(OutputRoot, p))) : p \in paths},
     files |-> [f \in {PathJoin(OutputRoot, p) : p \in paths} |-> <<"text of">> \o f]]

Trees == {TreeOf(paths) : paths \in SUBSET {PathA, PathB, PathC}}

\* every variable of a run and of a chat call at rest
NoRun ==
    /\ max_retries = 0
    /\ parallel = 1
    /\ dry_run = FALSE
    /\ format = "Markdown"
    /\ reorganize = FALSE
    /\ cross_ref = FALSE
    /\ permits = Parallelism
    /\ notes = <<>>
    /\ cat = IdleStream
    /\ enh = IdleStream
    /\ adv = NoCall
    /\ pb = [cat |-> 0, enh |-> 0]
    /\ errors = [cat |-> 0, enh |-> 0]
    /\ categorized = <<>>
    /\ enhanced = <<>>
    /\ written = <<>>
    /\ ioFailed = FALSE
    /\ printed = None
    /\ file_summaries = EmptyMap
    /\ ret = None
    /\ chat = NoCall
    /\ endpoint = <<>>

InitMoves ==
    /\ NoRun
    /\ pc = "moving"
    /\ fs \in Trees
    /\ arg \in MoveLists
    /\ val = [i |-> 1, ret |-> None]

\* one iteration of the loop: the move is skipped, applied, or fails
MoveStep ==
    /\ pc = "moving"
    /\ val.i <= Len(arg)
    /\ \E env \in 0..1, op \in ReorgOps :
          LET out == MoveLoop([fs |-> fs, ret |-> None], <<arg[val.i]>>, 1, env, op) IN
          /\ env = 0 => op = "mkdir"
          /\ fs' = out.fs
          /\ IF out.ret.tag = "Ok"
             THEN val' = [val EXCEPT !.i = @ + 1] /\ pc' = pc /\ ioFailed' = ioFailed
             ELSE val' = [val EXCEPT !.ret = out.ret] /\ pc' = "returned" /\ ioFailed' = TRUE
    /\ UNCHANGED <<cfgvars, chatvars, permits, notes, cat, enh, adv, pb, errors,
                   categorized, enhanced, written, printed, file_summaries, ret, arg>>

\* the loop is over: run_reorganization returns Ok(())
MovesDone ==
    /\ pc = "moving"
    /\ val.i > Len(arg)
    /\ val' = [val EXCEPT !.ret = Ok("unit")]
    /\ pc' = "returned"
    /\ UNCHANGED <<cfgvars, chatvars, permits, notes, cat, enh, adv, pb, errors,
                   categorized, enhanced, fs, written, ioFailed, printed, file_summaries, ret, arg>>

NextMoves == MoveStep \/ MovesDone

SpecMoves == InitMoves /\ [][NextMoves]_vars

(***************************************************************************)
(* extract_json (categorizer.rs and processor.rs hold the same function).  *)
(* A text is the sequence of its characters; a run of characters that are  *)
(* neither a backtick nor whitespace may stand as one element.  Positions  *)
(* are counted from 1, and 0 stands for None.                              *)
(***************************************************************************)
\* the backtick character
Tick == "BACKTICK"

Fence == <<Tick, Tick, Tick>>

IsWhitespace(c) == c \in {" ", "\n", "\t", "\r"}

RECURSIVE TrimStart(_)
TrimStart(s) == IF s # <<>> /\ IsWhitespace(Head(s)) THEN TrimStart(Tail(s)) ELSE s

RECURSIVE TrimEnd(_)
TrimEnd(s) ==
    IF s # <<>> /\ IsWhitespace(s[Len(s)]) THEN TrimEnd(SubSeq(s, 1, Len(s) - 1)) ELSE s

\* str::trim
TrimStartOnly(s) == TrimStart(s)
Trim(s) == TrimEnd(TrimStart(s))

\* trimmed.starts_with(fence)
StartsWithFence(s) == Len(s) >= Len(Fence) /\ SubSeq(s, 1, Len(Fence)) = Fence

\* str::find(char), scanning from position i on
RECURSIVE FindFrom(_, _, _)
FindFrom(s, c, i) ==
    IF i > Len(s) THEN 0 ELSE IF s[i] = c THEN i ELSE FindFrom(s, c, i + 1)

\* the fence stands in s at position i
FenceAt(s, i) == i >= 1 /\ i + Len(Fence) - 1 <= Len(s) /\ SubSeq(s, i, i + Len(Fence) - 1) = Fence

\* str::find(fence), scanning from position i on
RECURSIVE FindFenceFrom(_, _)
FindFenceFrom(s, i) ==
    IF i > Len(s) THEN 0 ELSE IF FenceAt(s, i) THEN i ELSE FindFenceFrom(s, i + 1)

\* str::rfind(fence), scanning from position i down
RECURSIVE RFindFenceFrom(_, _)
RFindFenceFrom(s, i) ==
    IF i < 1 THEN 0 ELSE IF FenceAt(s, i) THEN i ELSE RFindFenceFrom(s, i - 1)

\* rest.rfind(fence)
FirstFence(rest) == FindFenceFrom(rest, 1)
LastFence(rest) == RFindFenceFrom(rest, Len(rest))

ExtractJson(response) ==
    LET trimmed == Trim(response)
        start == FindFrom(trimmed, "\n", 1)
        rest == SubSeq(trimmed, start + 1, Len(trimmed))
        end == LastFence(rest)
    IN IF StartsWithFence(trimmed) /\ start # 0 /\ end # 0
       THEN Trim(SubSeq(rest, 1, end - 1))
       ELSE trimmed

(***************************************************************************)
(* SpecExtract: extract_json applied to one text.  The texts are every     *)
(* concatenation of at most MaxPieces pieces, a piece being a fence, a     *)
(* backtick, a newline, a space or a letter, and the JSON payloads of      *)
(* Payloads bare, padded with whitespace, and fenced.  `arg` is the text,  *)
(* with the payload it was made from if any.                               *)
(***************************************************************************)
MaxPieces == 5

\* what a text is put together from
TextPieces == {Fence, <<Tick>>, <<"\n">>, <<" ">>, <<"x">>}

RECURSIVE Concat(_)
Concat(pieces) == IF pieces = <<>> THEN <<>> ELSE Head(pieces) \o Concat(Tail(pieces))

ShortTexts == {Concat(ps) : ps \in UNION {[1..n -> TextPieces] : n \in 0..MaxPieces}}

\* valid JSON texts: an object; an array over two lines; a string holding a
\* fence; an array over two lines holding a fence and four backticks; a
\* string holding one backtick
Payloads ==
    {<<"{}">>,
     <<"[1,", "\n", " ", "2]">>,
     <<"\"", Tick, Tick, Tick, "\"">>,
     <<"[\"", Tick, Tick, Tick, "\",", "\n", "\"", Tick, Tick, Tick, Tick, "\"]">>,
     <<"{\"a\":\"", Tick, "\"}">>}

Paddings == {<<>>, <<" ">>, <<"\n">>, <<" ", "\n", "\t">>}

LanguageTags == {<<>>, <<"json">>}

Padded(p) == {l \o p \o r : l \in Paddings, r \in Paddings}

Fenced(p) ==
    {Fence \o tag \o <<"\n">> \o l \o p \o r \o Fence :
        tag \in LanguageTags, l \in Paddings, r \in Paddings}

ExtractInputs ==
    {[text |-> t, payload |-> None] : t \in ShortTexts}
    \cup UNION {{[text |-> t, payload |-> Some(p)] : t \in Padded(p)} : p \in Payloads}
    \cup UNION {{[text |-> o, payload |-> Some(p)] :
                    o \in UNION {Padded(t) : t \in Fenced(p)}} : p \in Payloads}

InitExtract ==
    /\ NoRun
    /\ pc = "call"
    /\ fs = [dirs |-> {}, files |-> EmptyMap]
    /\ arg \in ExtractInputs
    /\ val = None

ExtractCall ==
    /\ pc = "call"
    /\ val' = Some(ExtractJson(arg.text))
    /\ pc' = "returned"
    /\ UNCHANGED <<cfgvars, chatvars, permits, notes, cat, enh, adv, pb, errors,
                   categorized, enhanced, fs, written, ioFailed, printed, file_summaries, ret, arg>>

NextExtract == ExtractCall

SpecExtract == InitExtract /\ [][NextExtract]_vars

(***************************************************************************)
(* SpecBuild: build_file_content applied to the segments of one group.     *)
(* content is whatever the endpoint answered to the enhancement call       *)
(* (chat_internal returns message.content as it is): it may be empty and   *)
(* may end with newlines.  A group holds at least one segment.             *)
(***************************************************************************)
MaxSegments == 3

Contents == {<<>>, <<"a">>, <<"a", "\n">>, <<"a", "\n", "\n">>, <<"\n">>, <<"\n", "a">>}

GroupMember(content) ==
    [original_path |-> 1, content |-> content, category |-> "ideas",
     subcategory |-> None, output_paths |-> <<PathB>>]

Groups ==
    UNION {[1..n -> {GroupMember(c) : c \in Contents}] : n \in 1..MaxSegments}

InitBuild ==
    /\ NoRun
    /\ pc = "call"
    /\ fs = [dirs |-> {}, files |-> EmptyMap]
    /\ arg \in {[segments |-> g, format |-> f] : g \in Groups, f \in Formats}
    /\ val = None

BuildCall ==
    /\ pc = "call"
    /\ val' = Some(BuildFileContent(arg.segments, arg.format))
    /\ pc' = "returned"
    /\ UNCHANGED <<cfgvars, chatvars, permits, notes, cat, enh, adv, pb, errors,
                   categorized, enhanced, fs, written, ioFailed, printed, file_summaries, ret, arg>>

NextBuild == BuildCall

SpecBuild == InitBuild /\ [][NextBuild]_vars

(***************************************************************************)
(* SpecSegment: one note through categorize_note, enhance_segment and      *)
(* group_by_output_path.  The reply to the categorization call is garbage  *)
(* or one segment whose `paths` and `cross_file_to` are any lists of up to *)
(* MaxPaths paths (serde accepts any array of strings for `paths`, and     *)
(* an absent `cross_file_to` is the empty list); the enhancement call      *)
(* returns a content or an error.                                          *)
(*   val.categorized  what categorize_note returned                        *)
(*   val.results      what enhance_segment returned, per segment           *)
(*   val.enhanced     what enhance_all collected                           *)
(*   val.grouped      what group_by_output_path returned                   *)
(***************************************************************************)
MaxPaths == 2

PathLists == UNION {[1..n -> {PathA, PathB}] : n \in 0..MaxPaths}

SegmentReplies ==
    {Garbage} \cup
    {Json(<<[content |-> <<"s">>, category |-> "mathematics", subcategory |-> sub,
             paths |-> ps, cross_file_to |-> cs]>>) :
        sub \in {None, Some("topology")}, ps \in PathLists, cs \in PathLists}

InitSegment ==
    /\ NoRun
    /\ pc = "call"
    /\ fs = [dirs |-> {}, files |-> EmptyMap]
    /\ arg \in {[note |-> RawNote(1), reply |-> t] : t \in SegmentReplies}
    /\ val = None

\* categorize_note, the call having returned arg.reply
SegmentCategorize ==
    /\ pc = "call"
    /\ val' = [categorized |-> CategorizeNote(Ok(arg.reply)), results |-> <<>>,
               enhanced |-> <<>>, grouped |-> EmptyMap]
    /\ pc' = "categorized"
    /\ UNCHANGED <<cfgvars, chatvars, permits, notes, cat, enh, adv, pb, errors,
                   categorized, enhanced, fs, written, ioFailed, printed, file_summaries, ret, arg>>

\* enhance_all over the segments of the note: each call returns a content
\* or an error, and the Ok values are collected
SegmentEnhance ==
    /\ pc = "categorized"
    /\ val.categorized.tag = "Ok"
    /\ LET segments == val.categorized.val IN
       \E rs \in [1..Len(segments) -> {Ok(<<"s", "!">>), Err(OpenAIError)}] :
          LET results == [k \in 1..Len(segments) |->
                             EnhanceSegment(rs[k], segments[k], arg.note.path)]
          IN val' = [val EXCEPT
                        !.results = results,
                        !.enhanced = Flatten([k \in 1..Len(results) |->
                            [val |-> IF results[k].tag = "Ok" THEN Some(results[k].val)
                                     ELSE None]])]
    /\ pc' = "enhanced"
    /\ UNCHANGED <<cfgvars, chatvars, permits, notes, cat, enh, adv, pb, errors,
                   categorized, enhanced, fs, written, ioFailed, printed, file_summaries, ret, arg>>

\* group_by_output_path
SegmentGroup ==
    /\ pc = "enhanced"
    /\ val' = [val EXCEPT !.grouped = GroupByOutputPath(val.enhanced)]
    /\ pc' = "grouped"
    /\ UNCHANGED <<cfgvars, chatvars, permits, notes, cat, enh, adv, pb, errors,
                   categorized, enhanced, fs, written, ioFailed, printed, file_summaries, ret, arg>>

NextSegment == SegmentCategorize \/ SegmentEnhance \/ SegmentGroup

SpecSegment == InitSegment /\ [][NextSegment]_vars

(***************************************************************************)
(* types.rs: Category, as serde's derive encodes and decodes it.  A string *)
(* is the sequence of its characters; a member is Known(v) with v the      *)
(* identifier of the variant, or Custom(s).                                *)
(*   #[serde(rename_all = "snake_case")] names a variant by its identifier *)
(*     with every upper-case letter put in lower case, an underscore before *)
(*     it when it is not the first character;                               *)
(*   a unit variant is encoded as its name, and decoded from a string that *)
(*     is exactly its name;                                                *)
(*   #[serde(untagged)] Custom(String) is encoded as the string it holds,  *)
(*     and decodes any string no named variant decoded.                    *)
(***************************************************************************)
UpperCase == <<"A", "B", "C", "D", "E", "F", "G", "H", "I", "J", "K", "L", "M", "N", "O", "P", "Q", "R", "S", "T", "U", "V", "W", "X", "Y", "Z">>
LowerCase == <<"a", "b", "c", "d", "e", "f", "g", "h", "i", "j", "k", "l", "m", "n", "o", "p", "q", "r", "s", "t", "u", "v", "w", "x", "y", "z">>

IsUppercase(c) == \E i \in 1..Len(UpperCase) : UpperCase[i] = c
IsLowercase(c) == \E i \in 1..Len(LowerCase) : LowerCase[i] = c
ToLowercase(c) ==
    IF IsUppercase(c) THEN LowerCase[CHOOSE i \in 1..Len(UpperCase) : UpperCase[i] = c] ELSE c
ToUppercase(c) ==
    IF IsLowercase(c) THEN UpperCase[CHOOSE i \in 1..Len(LowerCase) : LowerCase[i] = c] ELSE c

\* the identifiers of the unit variants of Category
Variants ==
    {<<"M", "a", "t", "h", "e", "m", "a", "t", "i", "c", "s">>,
     <<"S", "t", "a", "t", "i", "s", "t", "i", "c", "s">>,
     <<"P", "h", "y", "s", "i", "c", "s">>,
     <<"C", "h", "e", "m", "i", "s", "t", "r", "y">>,
     <<"B", "i", "o", "l", "o", "g", "y">>,
     <<"C", "o", "m", "p", "u", "t", "e", "r", "S", "c", "i", "e", "n", "c", "e">>,
     <<"M", "a", "c", "h", "i", "n", "e", "L", "e", "a", "r", "n", "i", "n", "g">>,
     <<"E", "n", "g", "i", "n", "e", "e", "r", "i", "n", "g">>,
     <<"F", "i", "n", "a", "n", "c", "e">>,
     <<"P", "h", "i", "l", "o", "s", "o", "p", "h", "y">>,
     <<"H", "i", "s", "t", "o", "r", "y">>,
     <<"L", "i", "t", "e", "r", "a", "t", "u", "r", "e">>,
     <<"L", "a", "n", "g", "u", "a", "g", "e", "s">>,
     <<"J", "o", "u", "r", "n", "a", "l">>,
     <<"I", "d", "e", "a", "s">>,
     <<"T", "o", "d", "o">>,
     <<"B", "o", "o", "k", "s">>,
     <<"V", "i", "d", "e", "o", "s">>,
     <<"A", "r", "t", "i", "c", "l", "e", "s">>,
     <<"P", "o", "d", "c", "a", "s", "t", "s">>,
     <<"R", "e", "f", "e", "r", "e", "n", "c", "e">>,
     <<"L", "i", "n", "k", "s">>,
     <<"U", "n", "c", "a", "t", "e", "g", "o", "r", "i", "z", "e", "d">>}

Known(v) == [tag |-> "Known", name |-> v]
Custom(s) == [tag |-> "Custom", val |-> s]

\* rename_all = "snake_case"
RECURSIVE SnakeCaseFrom(_, _)
SnakeCaseFrom(v, i) ==
    IF i > Len(v) THEN <<>>
    ELSE (IF i > 1 /\ IsUppercase(v[i]) THEN <<"_">> ELSE <<>>)
         \o <<ToLowercase(v[i])>> \o SnakeCaseFrom(v, i + 1)

SnakeCase(v) == SnakeCaseFrom(v, 1)

\* Serialize for Category
SerializeCategory(c) == IF c.tag = "Known" THEN SnakeCase(c.name) ELSE c.val

\* Deserialize for Category, from a string
DeserializeUntagged(s) == Custom(s)
DeserializeCategory(s) ==
    IF \E v \in Variants : SnakeCase(v) = s
    THEN Known(CHOOSE v \in Variants : SnakeCase(v) = s)
    ELSE Custom(s)

(***************************************************************************)
(* SpecCategory: a member encoded and then decoded, and a string decoded   *)
(* and then encoded.  The strings are the names of the variants, each also *)
(* with its first letter, or all its letters, in upper case, and strings   *)
(* that name no variant.                                                   *)
(***************************************************************************)
Capitalized(s) == IF s = <<>> THEN s ELSE <<ToUppercase(Head(s))>> \o Tail(s)
AllUppercase(s) == [i \in 1..Len(s) |-> ToUppercase(s[i])]

OtherNames ==
    {<<"c", "o", "o", "k", "i", "n", "g">>,
     <<"m", "a", "t", "h">>,
     <<"c", "o", "m", "p", "u", "t", "e", "r", "s", "c", "i", "e", "n", "c", "e">>,
     <<"m", "a", "c", "h", "i", "n", "e", " ", "l", "e", "a", "r", "n", "i", "n", "g">>,
     <<"t", "o", "d", "o", "_">>,
     <<"C", "o", "o", "k", "i", "n", "g">>,
     <<>>}

CategoryStrings ==
    UNION {{SnakeCase(v), Capitalized(SnakeCase(v)), AllUppercase(SnakeCase(v)), v} : v \in Variants}
    \cup OtherNames

CategoryMembers == {Known(v) : v \in Variants} \cup {Custom(s) : s \in OtherNames}

InitCategory ==
    /\ NoRun
    /\ pc = "call"
    /\ fs = [dirs |-> {}, files |-> EmptyMap]
    /\ arg \in {[member |-> Some(c), text |-> None] : c \in CategoryMembers}
               \cup {[member |-> None, text |-> Some(s)] : s \in CategoryStrings}
    /\ val = [first |-> None, second |-> None]

\* serde_json::to_string of a member, or of the member decoded before
CategoryEncode ==
    /\ \/ /\ pc = "call" /\ arg.member.tag = "Some"
          /\ val' = [val EXCEPT !.first = Some(SerializeCategory(arg.member.val))]
          /\ pc' = "half"
       \/ /\ pc = "half" /\ arg.text.tag = "Some"
          /\ val' = [val EXCEPT !.second = Some(SerializeCategory(val.first.val))]
          /\ pc' = "returned"
    /\ UNCHANGED <<cfgvars, chatvars, permits, notes, cat, enh, adv, pb, errors,
                   categorized, enhanced, fs, written, ioFailed, printed, file_summaries, ret, arg>>

\* serde_json::from_str of a string, or of the string encoded before
CategoryDecode ==
    /\ \/ /\ pc = "call" /\ arg.text.tag = "Some"
          /\ val' = [val EXCEPT !.first = Some(DeserializeCategory(arg.text.val))]
          /\ pc' = "half"
       \/ /\ pc = "half" /\ arg.member.tag = "Some"
          /\ val' = [val EXCEPT !.second = Some(DeserializeCategory(val.first.val))]
          /\ pc' = "returned"
    /\ UNCHANGED <<cfgvars, chatvars, permits, notes, cat, enh, adv, pb, errors,
                   categorized, enhanced, fs, written, ioFailed, printed, file_summaries, ret, arg>>

NextCategory == CategoryEncode \/ CategoryDecode

SpecCategory == InitCategory /\ [][NextCategory]_vars

(***************************************************************************)
(* SpecRelative: relative_path applied to the from_file and to_file of one *)
(* cross-reference.  Both are strings of the reply, split at '/': up to    *)
(* MaxDepth components, "." among them.  run_cross_referencing calls it    *)
(* whenever from_file is a file that can be read; to_file is not looked    *)
(* at.  When `from_parts.len() - common - 1` underflows the process ends:  *)
(* a panic where overflow checks are on, and otherwise a count of 2^64 - 1 *)
(* whose ".." cannot be collected.                                         *)
(***************************************************************************)
MaxDepth == 3

Components == {"a", "b", "x.md", "."}

RelPaths == UNION {[1..n -> Components] : n \in 1..MaxDepth}

InitRelative ==
    /\ NoRun
    /\ pc = "call"
    /\ fs = [dirs |-> {}, files |-> EmptyMap]
    /\ arg \in {[from |-> f, to |-> t] : f \in RelPaths, t \in RelPaths}
    /\ val = None

RelativeReturn ==
    /\ pc = "call"
    /\ UpCount(arg.from, arg.to) >= 0
    /\ val' = Some(RelativePath(arg.from, arg.to))
    /\ pc' = "returned"
    /\ UNCHANGED <<cfgvars, chatvars, permits, notes, cat, enh, adv, pb, errors,
                   categorized, enhanced, fs, written, ioFailed, printed, file_summaries, ret, arg>>

RelativeUnderflow ==
    /\ pc = "call"
    /\ UpCount(arg.from, arg.to) < 0
    /\ pc' = "crashed"
    /\ UNCHANGED <<cfgvars, chatvars, permits, notes, cat, enh, adv, pb, errors,
                   categorized, enhanced, fs, written, ioFailed, printed, file_summaries, ret, arg, val>>

NextRelative == RelativeReturn \/ RelativeUnderflow

SpecRelative == InitRelative /\ [][NextRelative]_vars

(***************************************************************************)
(* SpecWrite: write_outputs applied to the groups of one or two output     *)
(* path strings, on an empty tree.  A path string is whatever the          *)
(* categorization reply held: it may be absolute and may hold "." and ".." *)
(* components.                                                             *)
(***************************************************************************)
OutputPaths ==
    {PathA, PathB, <<".", "b.md">>, <<"math", "..", "b.md">>, <<"..", "b.md">>,
     <<"/", "tmp", "b.md">>}

MaxGroups == 2

Groupings ==
    {g \in UNION {[ks -> {<<GroupMember(<<"a">>)>>}] : ks \in SUBSET OutputPaths} :
        Cardinality(DOMAIN g) \in 1..MaxGroups}

InitWrite ==
    /\ NoRun
    /\ pc = "call"
    /\ fs = [dirs |-> {}, files |-> EmptyMap]
    /\ arg \in {[grouped |-> g, format |-> f] : g \in Groupings, f \in Formats}
    /\ val = None

WriteCall ==
    /\ pc = "call"
    /\ \E order \in Orders(DOMAIN arg.grouped),
          env \in 0..Cardinality(DOMAIN arg.grouped), op \in FsOps :
          LET out == WriteOutputsFn(fs, arg.grouped, order, arg.format, env, op) IN
          /\ env = 0 => op = "mkdir"
          /\ fs' = out.fs
          /\ val' = Some(out.ret)
          /\ ioFailed' = (out.ret.tag = "Err")
    /\ pc' = "returned"
    /\ UNCHANGED <<cfgvars, chatvars, permits, notes, cat, enh, adv, pb, errors,
                   categorized, enhanced, written, printed, file_summaries, ret, arg>>

NextWrite == WriteCall

SpecWrite == InitWrite /\ [][NextWrite]_vars

(***************************************************************************)
(* Properties of one gateway call (SpecChat).                              *)
(***************************************************************************)
RequestsSent == SelectSeq(chat.log, LAMBDA e : e.ev = "request")
SleepsTaken == SelectSeq(chat.log, LAMBDA e : e.ev = "sleep")

\* a reply that chat_internal turns into an error
Failed(reply) == reply.tag = "Failure" \/ reply.content.tag = "None"

FailedReplies == {k \in 1..Len(endpoint) : Failed(endpoint[k])}

RECURSIVE SumSecs(_)
SumSecs(sleeps) == IF sleeps = <<>> THEN 0 ELSE Head(sleeps).secs + SumSecs(Tail(sleeps))

\* C6: a call sends at most max_retries requests, the k-th numbered k, and
\* never a request while another is unanswered; after a failed reply
\* (transport failure or completion without content) it goes on to a further
\* request whenever fewer than max_retries were sent, so it returns an error
\* only after max_retries requests; a successful reply is the last reply, the
\* call has returned its content, and nothing was sent after it.
C6_AtMostMaxRetriesAttempts ==
    /\ Len(RequestsSent) <= max_retries
    /\ \A k \in 1..Len(RequestsSent) : RequestsSent[k].attempt = k
    /\ Len(endpoint) = IF chat.pc = "request" THEN Len(RequestsSent) - 1
                       ELSE Len(RequestsSent)
    /\ chat.pc = "sleep" =>
          /\ Failed(endpoint[Len(endpoint)])
          /\ Len(RequestsSent) < max_retries
    /\ (chat.pc = "returned" /\ chat.ret.tag = "Err") =>
          /\ Len(RequestsSent) = max_retries
          /\ FailedReplies = 1..Len(endpoint)
    /\ \A k \in 1..Len(endpoint) :
          ~Failed(endpoint[k]) =>
              /\ k = Len(endpoint)
              /\ Len(RequestsSent) = k
              /\ chat.pc = "returned"
              /\ chat.ret = Ok(endpoint[k].content.val)
    /\ (chat.pc = "returned" /\ chat.ret.tag = "Ok") =>
          /\ endpoint # <<>>
          /\ ~Failed(endpoint[Len(endpoint)])

\* a completion without content, then a transport failure, then a success:
\* three requests, the third reply returned
C6_Witness ==
    /\ max_retries = 4
    /\ chat.pc = "returned"
    /\ Len(endpoint) = 3
    /\ endpoint[1] = Completion(None)
    /\ endpoint[2] = TransportFailure
    /\ chat.ret = Ok("r2")
    /\ Len(RequestsSent) = 3

\* C7: the i-th sleep of a call follows the i-th failed attempt, lasts
\* 2^(i-1) seconds and has i < max_retries; there is one sleep per failed
\* reply except for a failure of attempt max_retries, and none after a
\* success; with max_retries = 3, two failures and a success make 1 + 2 = 3
\* seconds of sleep.
C7_BackoffDoubles ==
    /\ \A i \in 1..Len(SleepsTaken) :
          /\ SleepsTaken[i].attempt = i
          /\ SleepsTaken[i].secs = 2 ^ (i - 1)
          /\ i < max_retries
          /\ i \in FailedReplies
    /\ Len(SleepsTaken) =
          Cardinality({k \in FailedReplies : k < max_retries})
    /\ (max_retries = 3 /\ Len(endpoint) = 3 /\ FailedReplies = {1, 2}) =>
          SumSecs(SleepsTaken) = 3

C7_Witness ==
    /\ max_retries = 3
    /\ chat.pc = "returned"
    /\ chat.ret.tag = "Ok"
    /\ FailedReplies = {1, 2}
    /\ Len(endpoint) = 3
    /\ SumSecs(SleepsTaken) = 3
    /\ Len(SleepsTaken) = 2

\* C8: when all max_retries >= 1 attempts of a call have failed, the value
\* returned is the max-retries error carrying the number of attempts made.
C8_TerminalErrorCountsAttempts ==
    (/\ chat.pc = "returned"
     /\ max_retries >= 1
     /\ FailedReplies = 1..max_retries)
    => /\ chat.ret.tag = "Err"
       /\ chat.ret.err.tag = "MaxRetries"
       /\ chat.ret.err.attempts = max_retries

(***************************************************************************)
(* Properties of the concurrent phases of a run (Spec).                    *)
(***************************************************************************)
Finished(s) == {i \in 1..Len(s.tasks) : s.tasks[i].st = "finished"}
Succeeded(s) == {i \in Finished(s) : s.tasks[i].res = "Ok"}
Dropped(s) == {i \in Finished(s) : s.tasks[i].res = "Err"}
Started(s) == {i \in 1..Len(s.tasks) : s.tasks[i].st \in {"running", "finished"}}

\* C1: in every state of a run, the tasks of categorize_all and of
\* enhance_all that hold a permit (from the acquire until the task finishes,
\* backoff sleeps included) are at most config.parallel, however many items
\* the phase has.
C1_AtMostParallelInFlight ==
    /\ Cardinality(Holders(cat)) <= parallel
    /\ Cardinality(Holders(enh)) <= parallel
    /\ Cardinality(Holders(cat)) + Cardinality(Holders(enh)) <= parallel

\* three segments to enhance under parallel = 2: two hold a permit, one of
\* them in a backoff sleep, and the third has not started
C1_Witness ==
    /\ parallel = 2
    /\ Len(enh.items) = 3
    /\ Cardinality(Holders(enh)) = 2
    /\ \E i \in Holders(enh) : enh.tasks[i].call.pc = "sleep"
    /\ Started(enh) # 1..3

\* what one stream has done so far, against its progress bar and error count
OncePerItem(s, pos, errs) ==
    /\ pos = Cardinality(Finished(s))
    /\ errs = Cardinality(Dropped(s))
    /\ Succeeded(s) \cap Dropped(s) = {}
    /\ Succeeded(s) \cup Dropped(s) = Finished(s)
    /\ s.state = "running" =>
          /\ Len(s.results) = Cardinality(Finished(s))
          /\ \A j, k \in 1..Len(s.results) :
                j # k => s.results[j].item # s.results[k].item
          /\ \A k \in 1..Len(s.results) :
                /\ s.results[k].item \in Finished(s)
                /\ s.results[k].val.tag = "Some" <=> s.results[k].item \in Succeeded(s)
    /\ s.state = "collected" =>
          /\ Finished(s) = 1..Len(s.items)
          /\ pos = Len(s.items)
          /\ Cardinality(Succeeded(s)) + errs = Len(s.items)

\* C2: each note is one categorization task and each segment of a
\* categorized note is one enhancement task; a task is collected once, as a
\* value or as a dropped failure, never both; when a phase has returned,
\* values + dropped = N for its N items, the progress bar stands at N, and
\* the values returned are those of the tasks that succeeded.
C2_ExactlyOnce ==
    /\ OncePerItem(cat, pb.cat, errors.cat)
    /\ OncePerItem(enh, pb.enh, errors.enh)
    /\ cat.state # "idle" => cat.items = notes
    /\ cat.state = "collected" =>
          /\ Len(categorized) = Cardinality(Succeeded(cat))
          /\ Len(categorized) + errors.cat = Len(notes)
          /\ \A i \in Succeeded(cat) :
                Cardinality({k \in 1..Len(categorized) :
                                categorized[k].path = notes[i].path}) = 1
    /\ enh.state # "idle" =>
          \A k \in 1..Len(categorized) : \A j \in 1..Len(categorized[k].segments) :
             Cardinality({i \in 1..Len(enh.items) :
                             enh.items[i] = [path |-> categorized[k].path,
                                             segment |-> categorized[k].segments[j]]}) = 1
    /\ enh.state # "idle" =>
          \A i \in 1..Len(enh.items) :
             \E k \in 1..Len(categorized) : \E j \in 1..Len(categorized[k].segments) :
                enh.items[i] = [path |-> categorized[k].path,
                                segment |-> categorized[k].segments[j]]
    /\ enh.state = "collected" =>
          /\ Len(enhanced) = Cardinality(Succeeded(enh))
          /\ Len(enhanced) + errors.enh = Len(enh.items)
          /\ \A i \in Succeeded(enh) :
                Cardinality({k \in 1..Len(enhanced) :
                                enhanced[k].content \in EnhTexts(enh.items[i])}) = 1

\* two notes categorized into three segments, of which one enhancement was
\* dropped: 2 values + 1 dropped = 3, progress 3
C2_Witness ==
    /\ enh.state = "collected"
    /\ Len(notes) = 2
    /\ pb.cat = 2
    /\ Len(enh.items) = 3
    /\ errors.enh = 1
    /\ Len(enhanced) = 2
    /\ pb.enh = 3

\* C3: whatever tasks of a phase fail, every task of the phase is started
\* and finishes, the value of every task that did not fail is in the list the
\* phase returns, and run() returns Err only when a filesystem call failed.
C3_FailureIsolation ==
    /\ cat.state = "collected" =>
          /\ Finished(cat) = 1..Len(notes)
          /\ \A i \in Succeeded(cat) :
                \E k \in 1..Len(categorized) : categorized[k].path = notes[i].path
    /\ enh.state = "collected" =>
          /\ Finished(enh) = 1..Len(enh.items)
          /\ \A i \in Succeeded(enh) :
                \E k \in 1..Len(enhanced) :
                   /\ enhanced[k].content \in EnhTexts(enh.items[i])
                   /\ enhanced[k].original_path = enh.items[i].path
    /\ (pc = "done" /\ ~ioFailed) => ret.tag = "Ok"
    /\ ret.tag = "Err" => ioFailed

\* one note failed categorization, one segment of the other failed
\* enhancement, and run() returned Ok with the files of the remaining segment
C3_Witness ==
    /\ pc = "done"
    /\ ret.tag = "Ok"
    /\ ret.val # <<>>
    /\ errors.cat = 1
    /\ errors.enh = 1
    /\ Len(enhanced) = 1

\* C9: free permits + permits held = config.parallel in every state; a task
\* that has finished, with a value or with an error, holds none; when
\* categorize_all or enhance_all has collected its last task, and from then
\* on outside the two phases, all permits are free.
C9_PermitsReleased ==
    /\ permits + Cardinality(Holders(cat)) + Cardinality(Holders(enh)) = parallel
    /\ permits \in 0..parallel
    /\ (pc = "categorize" /\ Finished(cat) = 1..Len(cat.items)) => permits = parallel
    /\ (pc = "enhance" /\ Finished(enh) = 1..Len(enh.items)) => permits = parallel
    /\ pc \notin {"categorize", "enhance"} => permits = parallel

\* both phases had a failed task and both permits are free after enhance_all
C9_Witness ==
    /\ parallel = 2
    /\ enh.state = "collected"
    /\ errors.cat > 0
    /\ errors.enh > 0
    /\ permits = 2

\* C10: while a categorization task is unfinished, no enhancement task has
\* left the queue: an enhancement task acquires a permit and calls the
\* gateway only after every categorization task has finished and released
\* its permit.
C10_PhasesDisjoint ==
    (\E i \in 1..Len(enh.tasks) : enh.tasks[i].st # "queued") =>
        /\ cat.state = "collected"
        /\ Finished(cat) = 1..Len(notes)
        /\ Holders(cat) = {}
        /\ pc # "categorize"

\* an enhancement task inside the gateway after two notes were categorized
\* with both permits in use
C10_Witness ==
    /\ parallel = 2
    /\ Len(notes) = 2
    /\ pc = "enhance"
    /\ \E i \in Holders(enh) : enh.tasks[i].call.pc = "request"
    /\ Finished(cat) = {1, 2}

(***************************************************************************)
(* Properties of the files of a run (Spec).                                *)
(***************************************************************************)
Range(seq) == {seq[k] : k \in 1..Len(seq)}

\* write_outputs has returned Ok and no advisory pass has begun: the file
\* tree is as write_outputs left it
JustWritten ==
    /\ ~ioFailed
    /\ adv.pc = "none"
    /\ \/ pc = "reorganize"
       \/ pc = "cross_ref" /\ ~reorganize
       \/ pc = "done" /\ ~reorganize /\ ~cross_ref

StartsWith(text, prefix) ==
    Len(text) >= Len(prefix) /\ SubSeq(text, 1, Len(prefix)) = prefix

\* the pieces of `text` between the occurrences of `sep`; `piece` is the
\* piece being read
RECURSIVE SplitOn(_, _, _)
SplitOn(text, sep, piece) ==
    IF text = <<>> THEN <<piece>>
    ELSE IF StartsWith(text, sep)
         THEN <<piece>> \o SplitOn(SubSeq(text, Len(sep) + 1, Len(text)), sep, <<>>)
         ELSE SplitOn(Tail(text), sep, Append(piece, Head(text)))

\* the segment contents found in a file, in the order they stand there
Pieces(content) ==
    SplitOn(SubSeq(content, 1, Len(content) - 1), Separator(format), <<>>)

\* the enhancement tasks that returned a value and whose segment names
\* path p among its primary paths or its cross-file paths
Targeting(p) ==
    {i \in Succeeded(enh) :
        \/ p \in Range(enh.items[i].segment.paths)
        \/ p \in Range(enh.items[i].segment.cross_file_to)}

Targets == {p \in {PathA, PathB, PathC, PathMissing} : Targeting(p) # {}}

\* the content enhancement gave the segment of task i
EnhancedContent(i) == CHOOSE t \in EnhTexts(enh.items[i]) : TRUE

\* the task whose enhanced content is `piece`
TaskOf(piece) == CHOOSE i \in 1..Len(enh.items) : EnhancedContent(i) = piece

\* discovery order: notes in the order discover_notes returned them, the
\* segments of a note in the order of its categorization
DiscoveredBefore(i, j) ==
    \/ enh.items[i].path < enh.items[j].path
    \/ enh.items[i].path = enh.items[j].path /\ i < j

\* C4: in every file written, the segments stand in discovery order,
\* whatever the order in which the tasks finished.
C4_DiscoveryOrder ==
    JustWritten =>
        \A f \in DOMAIN fs.files :
           LET pieces == Pieces(fs.files[f]) IN
           \A a, b \in 1..Len(pieces) :
              a < b => \/ TaskOf(pieces[a]) = TaskOf(pieces[b])
                       \/ DiscoveredBefore(TaskOf(pieces[a]), TaskOf(pieces[b]))

\* C5: after write_outputs, there is one file per path that an enhanced
\* segment names among its primary or cross-file paths; the file at p is
\* segment contents joined by the separator of the format and closed by a
\* newline, and the contents found there are exactly those of the enhanced
\* segments naming p: none missing, none replaced, none from elsewhere.
C5_FanOutFanIn ==
    JustWritten =>
        /\ DOMAIN fs.files = {PathJoin(OutputRoot, p) : p \in Targets}
        /\ \A p \in Targets :
              LET content == fs.files[PathJoin(OutputRoot, p)] IN
              /\ content[Len(content)] = "\n"
              /\ Range(Pieces(content)) = {EnhancedContent(i) : i \in Targeting(p)}

\* three enhanced segments: each primary path [math/a.md] with cross-file
\* path [b.md] is in both files, and b.md holds all three
C5_Witness ==
    /\ JustWritten
    /\ Cardinality(Succeeded(enh)) = 3
    /\ Cardinality(Targeting(PathA)) = 2
    /\ Cardinality(Targeting(PathB)) = 3
    /\ \E i \in Targeting(PathA) :
          /\ enh.items[i].segment.paths = <<PathA>>
          /\ enh.items[i].segment.cross_file_to = <<PathB>>
          /\ i \in Targeting(PathB)
    /\ Cardinality(Range(Pieces(fs.files[PathJoin(OutputRoot, PathB)]))) = 3

(***************************************************************************)
(* Properties of the error taxonomy of a run (Spec).                       *)
(***************************************************************************)
\* the gateway call of categorization task t returned a text that does not
\* parse
ReturnedGarbage(t) ==
    /\ t.call.pc = "returned"
    /\ t.call.ret.tag = "Ok"
    /\ t.call.ret.val = Garbage

\* the gateway call of task t, as far as it has got, sent `attempt` requests
\* and the last event of its log is the request the reply answered
LastEventIsRequest(t) ==
    /\ t.call.log # <<>>
    /\ t.call.log[Len(t.call.log)] = Request(t.call.attempt)
    /\ Len(SelectSeq(t.call.log, LAMBDA e : e.ev = "request")) = t.call.attempt

\* one step seen from categorization task i, whose call returned a text
\* that does not parse: nothing happens to it, or it finishes as a dropped
\* failure, an error line is logged, and no other task changes
DroppedUnretried(i) ==
    \/ cat'.tasks[i] = cat.tasks[i]
    \/ /\ cat'.tasks[i] = [st |-> "finished", call |-> NoCall, res |-> "Err"]
       /\ cat'.results = Append(cat.results, [item |-> i, val |-> None])
       /\ errors'.cat = errors.cat + 1
       /\ permits' = permits + 1
       /\ \A j \in 1..Len(cat.tasks) : j # i => cat'.tasks[j] = cat.tasks[j]

\* C11: a categorization reply that the gateway delivered but that does not
\* parse ends the note's only gateway call: no request follows the reply
\* (one request in all when it was the first reply), the task finishes as a
\* dropped failure, it never runs again, and the other tasks are untouched.
C11_ParseFailureNotRetried ==
    /\ [](\A i \in 1..Len(cat.tasks) :
             ReturnedGarbage(cat.tasks[i]) =>
                /\ LastEventIsRequest(cat.tasks[i])
                /\ cat.tasks[i].call.attempt = 1 =>
                      cat.tasks[i].call.log = <<Request(1)>>)
    /\ [][\A i \in 1..Len(cat.tasks) :
             /\ ReturnedGarbage(cat.tasks[i]) => DroppedUnretried(i)
             /\ cat.tasks[i].st = "finished" => cat'.tasks[i] = cat.tasks[i]]_vars

\* with retries available, the first reply for note 1 did not parse: its call
\* has returned after one request, while note 2 has been categorized
C11_Witness ==
    /\ max_retries = 2
    /\ Len(notes) = 2
    /\ ReturnedGarbage(cat.tasks[1])
    /\ cat.tasks[1].call.log = <<Request(1)>>
    /\ cat.tasks[2].st = "finished"
    /\ cat.tasks[2].res = "Ok"

\* C12: in a dry run, whatever categorization returned, enhance_all is never
\* entered (no enhancement task, no enhancement gateway call), the file system
\* is never touched, no advisory gateway call is made, and run() returns
\* Ok(vec![]).
C12_DryRunTouchesNothing ==
    /\ [](dry_run =>
             /\ pc \in {"discover", "categorize", "done"}
             /\ enh = IdleStream
             /\ adv = NoCall
             /\ written = <<>>
             /\ ~ioFailed
             /\ pc = "done" => ret = Ok(<<>>))
    /\ [][dry_run => fs' = fs /\ enh' = enh /\ adv' = adv]_vars

\* a dry run with both advisory passes requested has returned after one note
\* was categorized and one failed
C12_Witness ==
    /\ dry_run
    /\ reorganize
    /\ cross_ref
    /\ pc = "done"
    /\ Len(notes) = 2
    /\ Len(categorized) = 1
    /\ errors.cat = 1
    /\ ret = Ok(<<>>)

\* C13: when create_dir_all or fs::write fails in write_outputs, run()
\* returns Err at once: the exit status is not 0, and neither advisory pass
\* makes its gateway call or touches the file tree afterwards, although
\* --reorganize and --cross-ref may be set.
C13_WriteFailureIsFatal ==
    /\ [][(pc = "write" /\ ioFailed') =>
             /\ pc' = "done"
             /\ ret'.tag = "Err"
             /\ ExitStatus(ret') # 0
             /\ adv' = NoCall]_vars
    /\ [][pc # "done"]_vars
    /\ []((pc = "done" /\ ioFailed) => (ret.tag = "Err" /\ ExitStatus(ret) # 0))

\* the second file of a run with both advisory passes requested could not be
\* written: the first file exists, run() has returned Err, no pass started
C13_Witness ==
    /\ pc = "done"
    /\ reorganize
    /\ cross_ref
    /\ ioFailed
    /\ ret = Err("Writer")
    /\ Cardinality(DOMAIN fs.files) = 1
    /\ Cardinality(Targets) = 2
    /\ adv = NoCall
    /\ ExitStatus(ret) = 1

\* the gateway call of the running advisory pass failed, or returned a text
\* that does not parse
AdvisoryFailed ==
    /\ pc \in {"reorganize", "cross_ref"}
    /\ adv.pc = "returned"
    /\ adv.ret.tag = "Err" \/ adv.ret.val = Garbage

\* C14: the gateway steps of an advisory pass change no file, and a pass
\* whose gateway call failed or whose reply does not parse ends without
\* touching the file tree and without an error: the run goes on to the next
\* pass, or returns Ok(written) with the list write_outputs returned.
C14_AdvisoryFailureAbsorbed ==
    /\ [][(pc \in {"reorganize", "cross_ref"} /\ adv.pc # "returned") =>
             (fs' = fs /\ pc' = pc /\ written' = written)]_vars
    /\ [][AdvisoryFailed =>
             /\ fs' = fs
             /\ written' = written
             /\ ~ioFailed'
             /\ pc' = IF pc = "reorganize" /\ cross_ref THEN "cross_ref" ELSE "done"
             /\ pc' = "done" => (ret' = Ok(written) /\ ExitStatus(ret') = 0)]_vars

\* after a reorganization pass, the gateway call of the cross-reference pass
\* has used up its two attempts; both written files are in place
C14_Witness ==
    /\ AdvisoryFailed
    /\ pc = "cross_ref"
    /\ reorganize
    /\ max_retries = 2
    /\ adv.ret.tag = "Err"
    /\ adv.attempt = 2
    /\ Len(written) = 2
    /\ DOMAIN fs.files = Range(written)

(***************************************************************************)
(* Properties of the reorganization moves (SpecMoves).                     *)
(***************************************************************************)
\* the source and the destination of the move the loop is at
MoveSource == PathJoin(OutputRoot, arg[val.i].current_path)
MoveTarget == PathJoin(OutputRoot, arg[val.i].suggested_path)

AtMove == pc = "moving" /\ val.i <= Len(arg)

\* C15: a move whose current_path names neither a file nor a directory when
\* its iteration runs leaves the tree as it is (no directory made, nothing
\* renamed), raises no error, and the loop goes on with the next move, which
\* is applied as usual: a move of an existing file that does not fail puts
\* the file's content at the suggested path.
C15_MissingSourceSkipped ==
    /\ [][(AtMove /\ MoveSource \notin DOMAIN fs.files /\ MoveSource \notin fs.dirs) =>
             /\ fs' = fs
             /\ ~ioFailed'
             /\ pc' = "moving"
             /\ val' = [i |-> val.i + 1, ret |-> None]]_vars
    /\ [][(AtMove /\ MoveSource \in DOMAIN fs.files /\ ~ioFailed') =>
             /\ MoveTarget \in DOMAIN fs'.files
             /\ fs'.files[MoveTarget] = fs.files[MoveSource]
             /\ val'.i = val.i + 1]_vars

\* gone.md to stats/c.md, then b.md to math/a.md, on a tree holding b.md
\* only: no stats directory, b.md is now math/a.md, Ok(()) returned
C15_Witness ==
    /\ pc = "returned"
    /\ arg = <<ReorgSuggestion(PathMissing, PathC), ReorgSuggestion(PathB, PathA)>>
    /\ val.ret = Ok("unit")
    /\ ~ioFailed
    /\ PathJoin(OutputRoot, Parent(PathC)) \notin fs.dirs
    /\ DOMAIN fs.files = {PathJoin(OutputRoot, PathA)}
    /\ fs.files[PathJoin(OutputRoot, PathA)] = <<"text of">> \o PathJoin(OutputRoot, PathB)

(***************************************************************************)
(* Properties of extract_json (SpecExtract).                               *)
(***************************************************************************)
\* s without its leading and trailing whitespace
Trimmed(s) ==
    LET solid == {i \in 1..Len(s) : s[i] \notin {" ", "\n", "\t", "\r"}}
    IN IF solid = {} THEN <<>>
       ELSE SubSeq(s, CHOOSE i \in solid : \A j \in solid : i <= j,
                      CHOOSE i \in solid : \A j \in solid : i >= j)

\* where a fence stands in s
FencePositions(s) ==
    {i \in 1..Len(s) - 2 : s[i] = Tick /\ s[i + 1] = Tick /\ s[i + 2] = Tick}

\* where a newline stands in s
NewlinePositions(s) == {i \in 1..Len(s) : s[i] = "\n"}

\* C16: for a valid JSON payload P (trimmed), extract_json returns exactly P
\* from P alone, from P between whitespace, and from P inside a fence whose
\* opening line has a language tag or none, with whitespace anywhere around,
\* also when P holds triple backticks.
C16_PayloadRecovered ==
    (pc = "returned" /\ arg.payload.tag = "Some") => val = Some(arg.payload.val)

\* a fenced payload with language tag that itself holds a fence and four
\* backticks over two lines
C16_Witness ==
    /\ pc = "returned"
    /\ arg.payload.tag = "Some"
    /\ Cardinality(FencePositions(arg.payload.val)) = 3
    /\ NewlinePositions(arg.payload.val) # {}
    /\ SubSeq(arg.text, 1, 5) = Fence \o <<"json", "\n">>
    /\ val = Some(arg.payload.val)

\* C17: with t the trimmed input, extract_json returns t when t does not
\* begin with a fence, when t holds no newline, and when no fence stands
\* after the first newline of t; otherwise it returns, trimmed, what stands
\* between the first newline of t and the last fence after it.
C17_ExtractCases ==
    pc = "returned" =>
        LET t == Trimmed(arg.text)
            newlines == NewlinePositions(t)
            first == CHOOSE i \in newlines : \A j \in newlines : i <= j
            closing == {i \in FencePositions(t) : i > first}
            last == CHOOSE i \in closing : \A j \in closing : i >= j
        IN val = Some(IF 1 \notin FencePositions(t) THEN t
                      ELSE IF newlines = {} THEN t
                      ELSE IF closing = {} THEN t
                      ELSE Trimmed(SubSeq(t, first + 1, last - 1)))

\* a text with padding, an opening fence, and two fences after the first
\* newline: what is returned ends before the last one
C17_Witness ==
    /\ pc = "returned"
    /\ arg.text = <<" ", Tick, Tick, Tick, "\n", Tick, Tick, Tick, Tick>>
    /\ val = Some(<<Tick>>)

(***************************************************************************)
(* Properties of build_file_content (SpecBuild).                           *)
(***************************************************************************)
\* the number of newline characters the text ends with
RECURSIVE TrailingNewlines(_)
TrailingNewlines(s) ==
    IF s # <<>> /\ s[Len(s)] = "\n" THEN 1 + TrailingNewlines(SubSeq(s, 1, Len(s) - 1))
    ELSE 0

\* C18: whatever the contents of the segments of a group and whatever the
\* format, the text build_file_content returns ends with exactly one
\* newline, also when the last content is empty or ends with newlines.
C18_OneTrailingNewline ==
    pc = "returned" => TrailingNewlines(val.val) = 1

(***************************************************************************)
(* Properties of one segment on its way to the groups (SpecSegment).       *)
(***************************************************************************)
\* how many times x stands in the sequence s
Occurrences(s, x) == Cardinality({i \in 1..Len(s) : s[i] = x})

\* C19: every segment whose enhancement call succeeded yields exactly one
\* EnhancedSegment; it has the segment's category and subcategory, the path
\* of the note, the content the call returned, and as output_paths the
\* paths of `paths` and `cross_file_to` together, each once even when it is
\* listed in both or twice; so the segment stands exactly once in the group
\* of each of its paths.
C19_EnhancedSegmentFields ==
    pc = "grouped" =>
        LET segments == val.categorized.val
            succeeded == {k \in 1..Len(segments) : val.results[k].tag = "Ok"}
        IN /\ Len(val.enhanced) = Cardinality(succeeded)
           /\ \A k \in succeeded :
                 LET e == val.results[k].val
                     named == Range(segments[k].paths) \cup Range(segments[k].cross_file_to)
                 IN /\ Occurrences(val.enhanced, e) = 1
                    /\ e.content = <<"s", "!">>
                    /\ e.category = segments[k].category
                    /\ e.subcategory = segments[k].subcategory
                    /\ e.original_path = arg.note.path
                    /\ Range(e.output_paths) = named
                    /\ \A p \in named : Occurrences(e.output_paths, p) = 1
                    /\ \A p \in named :
                          /\ p \in DOMAIN val.grouped
                          /\ Occurrences(val.grouped[p], e) = 1

\* C20: every segment categorize_note accepts has at least one path in
\* `paths`, and every segment enhanced after that stands in at least one of
\* the groups that are written.
C20_PrimaryPathsNonEmpty ==
    /\ (pc \in {"categorized", "enhanced", "grouped"} /\ val.categorized.tag = "Ok")
          => \A k \in 1..Len(val.categorized.val) : val.categorized.val[k].paths # <<>>
    /\ pc = "grouped"
          => \A k \in 1..Len(val.enhanced) :
                \E p \in DOMAIN val.grouped : Occurrences(val.grouped[p], val.enhanced[k]) >= 1

(***************************************************************************)
(* Properties of the dry run's report (Spec).                              *)
(***************************************************************************)
\* the segments the categorization of the discovered notes yielded: those
\* of the notes whose categorize_note returned Ok
SegmentsYielded ==
    LET sum[i \in 0..Len(categorized)] ==
            IF i = 0 THEN 0 ELSE sum[i - 1] + Len(categorized[i].segments)
    IN sum[Len(categorized)]

\* C21: the total line a dry run prints reports the number of notes
\* discovery found and the number of segments their categorization yielded.
C21_DryRunTotals ==
    (pc = "done" /\ dry_run /\ printed.tag = "Some")
        => /\ printed.val.notes = Len(notes)
           /\ printed.val.segments = SegmentsYielded

(***************************************************************************)
(* Properties of Category's encoding (SpecCategory).                       *)
(***************************************************************************)
KnownNames == {SnakeCase(v) : v \in Variants}

Lowercased(s) == [i \in 1..Len(s) |-> ToLowercase(s[i])]

\* C22: a known member encoded and then decoded is the same member; a
\* string without upper-case letters that is no known name decodes to the
\* custom variant holding it, which encodes to the same string.
C22_CategoryRoundTrip ==
    pc = "returned" =>
        /\ (arg.member.tag = "Some" /\ arg.member.val.tag = "Known")
              => val.second = Some(arg.member.val)
        /\ (/\ arg.text.tag = "Some"
            /\ Lowercased(arg.text.val) = arg.text.val
            /\ arg.text.val \notin KnownNames)
              => /\ val.first = Some(Custom(arg.text.val))
                 /\ val.second = Some(arg.text.val)

\* ComputerScience is encoded as computer_science and decoded from it
C22_Witness ==
    /\ pc = "returned"
    /\ arg.member = Some(Known(<<"C", "o", "m", "p", "u", "t", "e", "r",
                                 "S", "c", "i", "e", "n", "c", "e">>))
    /\ val.first = Some(<<"c", "o", "m", "p", "u", "t", "e", "r", "_",
                          "s", "c", "i", "e", "n", "c", "e">>)
    /\ val.second = arg.member

\* C23: a string that is a known name up to the case of its letters decodes
\* to that member, and only a string that is no known name, whatever the
\* case, decodes to the custom variant.
C23_CaseInsensitiveDecoding ==
    (pc \in {"half", "returned"} /\ arg.text.tag = "Some") =>
        LET folded == Lowercased(arg.text.val) IN
        IF folded \in KnownNames
        THEN val.first = Some(Known(CHOOSE v \in Variants : SnakeCase(v) = folded))
        ELSE val.first = Some(Custom(arg.text.val))

(***************************************************************************)
(* Properties of relative_path (SpecRelative).                             *)
(***************************************************************************)
\* where one arrives from directory `at` following the components of `link`
RECURSIVE Walk(_, _)
Walk(at, link) ==
    IF link = <<>> THEN at
    ELSE IF Head(link) = "." THEN Walk(at, Tail(link))
    ELSE IF Head(link) = ".." /\ at # <<>> /\ at[Len(at)] # ".."
         THEN Walk(Parent(at), Tail(link))
    ELSE Walk(Append(at, Head(link)), Tail(link))

\* C24: for from # to, the link "./" + relative_path(from, to), followed
\* from the directory of the source, arrives at the target; it is one ".."
\* per level from the source's directory up to the deepest directory that
\* is also an ancestor of the target, then the target's components below.
C24_LinkDenotesTarget ==
    (pc \in {"returned", "crashed"} /\ arg.from # arg.to) =>
        LET dir == Parent(arg.from)
            k == CommonPrefix(dir, arg.to)
        IN /\ pc = "returned"
           /\ Walk(Walk(<<>>, dir), <<".">> \o val.val) = Walk(<<>>, arg.to)
           /\ val.val = Repeat("..", Len(dir) - k) \o SubSeq(arg.to, k + 1, Len(arg.to))

\* C28: the count of upward steps, components of from - common prefix - 1,
\* is never negative, whatever the two paths: relative_path always returns.
C28_UpCountNonNegative ==
    /\ UpCount(arg.from, arg.to) >= 0
    /\ pc # "crashed"

(***************************************************************************)
(* Properties of the input of the cross-reference pass (Spec).             *)
(***************************************************************************)
\* C25: while the cross-reference pass waits for its reply, the summaries
\* it has sent are those of the files of the output tree, all written by
\* this run: one per file, under the file's path relative to the output
\* root, also after the reorganization pass has moved files.
C25_SummariesCoverTree ==
    (pc = "cross_ref" /\ adv.pc = "request" /\ adv.log = <<Request(1)>>) =>
        /\ DOMAIN file_summaries = {StripPrefix(f, OutputRoot) : f \in DOMAIN fs.files}
        /\ \A f \in DOMAIN fs.files :
              file_summaries[StripPrefix(f, OutputRoot)] = Summary(fs.files[f])

(***************************************************************************)
(* Properties of the places write_outputs writes to (SpecWrite).           *)
(***************************************************************************)
\* the path denotes a place below the output root
UnderOutputRoot(p) ==
    LET r == Walk(<<>>, p)
    IN Len(r) > Len(OutputRoot) /\ SubSeq(r, 1, Len(OutputRoot)) = OutputRoot

\* C26: every file write_outputs has written lies below the output root,
\* whatever the path strings, absolute ones and ones with ".." included;
\* and no two of the paths it has written denote the same file.
C26_WritesStayUnderRoot ==
    pc = "returned" =>
        /\ \A f \in DOMAIN fs.files : UnderOutputRoot(f)
        /\ val.val.tag = "Ok" =>
              \A i, j \in 1..Len(val.val.val) :
                 i # j => Walk(<<>>, val.val.val[i]) # Walk(<<>>, val.val.val[j])

(***************************************************************************)
(* Properties of the files kept by the reorganization moves (SpecMoves).   *)
(***************************************************************************)
FileContents(fsys) == {fsys.files[f] : f \in DOMAIN fsys.files}

\* C27: no iteration of the loop loses a file: the tree holds as many files
\* after it as before, and every content that was in the tree still is, at
\* some path; so it is for the whole pass, whatever the list of moves.
C27_MovesLoseNoFile ==
    [][AtMove => /\ Cardinality(DOMAIN fs'.files) = Cardinality(DOMAIN fs.files)
                 /\ FileContents(fs) \subseteq FileContents(fs')]_vars

(***************************************************************************)
(* Termination of a run (SpecLive).                                        *)
(***************************************************************************)
\* C29: whatever the number of notes and the value of `parallel`, when the
\* endpoint answers every call, the categorization and enhancement phases
\* complete and run() returns.
C29_RunReturns == <>(pc = "done")

(***************************************************************************)
(* Properties of a gateway call without retries (SpecChat).                *)
(***************************************************************************)
\* C30: with max_retries = 0 a call sends no request and returns at once
\* the max-retries error with the count 0; with max_retries >= 1 a call
\* that returned an error has sent at least one request.
C30_ZeroRetriesSendsNothing ==
    /\ max_retries = 0 =>
          /\ chat.log = <<>>
          /\ endpoint = <<>>
          /\ chat.pc \in {"none", "returned"}
          /\ chat.pc = "returned" => chat.ret = Err(MaxRetriesError(0))
    /\ (max_retries >= 1 /\ chat.pc = "returned" /\ chat.ret.tag = "Err") =>
          /\ Len(RequestsSent) >= 1
          /\ Len(endpoint) >= 1

C30_Witness ==
    /\ max_retries = 0
    /\ chat.pc = "returned"
    /\ chat.ret = Err(MaxRetriesError(0))
    /\ RequestsSent = <<>>

====
